---- MODULE Spec2Model ----
(***************************************************************************)
(* Model of RecurrentNodes.h: the delayed-value nodes (PastValueNode,      *)
(* FutureValueNode, both instances of DelayedValueNodeBase) of CNTK.       *)
(*                                                                         *)
(* A matrix is modelled as the sequence of its columns; a column's content *)
(* is one integer (every operation of the node moves or adds whole         *)
(* columns, so the rows of a column always travel together).  Column c of  *)
(* the source (0-based) is element c+1 of the sequence.                    *)
(***************************************************************************)
EXTENDS Integers, Sequences, FiniteSets, TLC

(***************************************************************************)
(* Bounds of the model.                                                    *)
(***************************************************************************)
MaxStreams == 2
MaxFrames == 3
MaxStep == 3
MaxFlagged == 2
MaxMinibatches == 2
MaxPartials == 2

(***************************************************************************)
(* MinibatchPackingFlags: a flag word is modelled as the set of its bits,  *)
(* so that & is \cap and | is \cup.                                        *)
(***************************************************************************)
SequenceStart == "SequenceStart"
SequenceEnd == "SequenceEnd"
NoFeature == "NoFeature"
NoLabel == "NoLabel"
None == {}
NoInput == {NoFeature, NoLabel}

\* the template arguments of the two instances of DelayedValueNodeBase
Directions == {-1, 1}
SequenceStart_or_End(dir) == IF dir = -1 THEN SequenceStart ELSE SequenceEnd

(***************************************************************************)
(* MBLayout: the per-(stream, frame) flags m_sentenceBoundaryFlags (cell)  *)
(* and the per-frame flags m_minibatchPackingFlags (frame).                *)
(***************************************************************************)
Cells(n, T) == (0 .. n - 1) \X (0 .. T - 1)

NullLayout == [n |-> 0, T |-> 0, cell |-> << >>, frame |-> << >>]

Frames(L) == 0 .. L.T - 1
Streams(L) == 0 .. L.n - 1

GetNumParallelSequences(L) == L.n
GetSize(L) == L.T

\* MBLayout::Is(t, f) and MBLayout::Is(id, t, f)
Is(L, t, f) == (L.frame[t] \cap f) # {}
IsCell(L, id, t, f) == (L.cell[<<id, t>>] \cap f) # {}

\* MBLayout::Set(id, t, f): ORs f into the cell and into the frame's flags
Set(L, id, t, f) ==
    IF f = None THEN L
    ELSE [L EXCEPT !.cell[<<id, t>>] = @ \cup f, !.frame[t] = @ \cup f]

\* MBLayout::Mask(id, t, f): keeps only the bits f of the cell; the frame's
\* flags are left as they are
Mask(L, id, t, f) == [L EXCEPT !.cell[<<id, t>>] = @ \cap f]

\* MBLayout::GetFrame(t): the column of cell flags and the frame's flags
GetFrame(L, t) ==
    [first |-> [id \in 0 .. L.n - 1 |-> L.cell[<<id, t>>]], second |-> L.frame[t]]

\* a layout as a reader builds it: Set() on an all-None layout
CellFlags == {{SequenceStart}, {SequenceEnd}, NoInput}

RECURSIVE SetAll(_, _, _)
SetAll(L, flagged, todo) ==
    IF todo = {} THEN L
    ELSE LET c == CHOOSE x \in todo : TRUE
         IN  SetAll(Set(L, c[1], c[2], flagged[c]), flagged, todo \ {c})

EmptyLayout(n, T) ==
    [n |-> n, T |-> T,
     cell |-> [c \in Cells(n, T) |-> None],
     frame |-> [t \in 0 .. T - 1 |-> None]]

LayoutsOfShape(n, T) ==
    UNION { { SetAll(EmptyLayout(n, T), flagged, X) : flagged \in [X -> CellFlags] } :
            X \in { Y \in SUBSET Cells(n, T) : Cardinality(Y) <= MaxFlagged } }

MBLayouts ==
    UNION { LayoutsOfShape(n, T) : n \in 1 .. MaxStreams, T \in 1 .. MaxFrames }

(***************************************************************************)
(* Matrix helpers.                                                         *)
(***************************************************************************)
GetNumCols(m) == Len(m)
Filled(cols, v) == [c \in 1 .. cols |-> v]

\* the content of a buffer that Resize() has reallocated is not initialised
Uninitialized == {-1, -2}

\* Matrix::Resize(rows, cols): a buffer that already has the size is kept
Resize(m, cols, garbage) == IF Len(m) = cols THEN m ELSE Filled(cols, garbage)

\* Matrix::Mod(x, y) = x - y * floor(x / y)
Mod(x, y) == x - y * (x \div y)

(***************************************************************************)
(* The values the environment supplies: the input node's value buffer of   *)
(* minibatch k, the gradient the consumers of the node have left in its    *)
(* gradient buffer, the gradient other consumers of the input have already *)
(* left in the input's gradient buffer, and an injected history.           *)
(***************************************************************************)
InputValues(k, cols) == [c \in 1 .. cols |-> 100 * k + c]
GradientOf(k, cols) == [c \in 1 .. cols |-> 10 * k + c]
OtherConsumers(cols) == [c \in 1 .. cols |-> 1000 * c]
Histories(L) == { [c \in 1 .. cols |-> 900 + c] : cols \in {L.n, L.n * L.T} }
InitialActivationValues == {5}
LoadedActivationValues == {6}

VARIABLES
    direction,                  \* template argument: -1 PastValue, +1 FutureValue
    m_timeStep,
    m_initialActivationValue,
    m_pMBLayout,
    m_pShiftedMBLayout,
    m_functionValues,
    m_delayedActivation,
    m_historyAlreadySet,
    m_gradientValues,
    inputFunctionValues,        \* Inputs(0)->FunctionValues()
    inputGradientValues,        \* Inputs(0)->GradientValues()
    mbLayout,                   \* the layout the reader made for the minibatches
    mb,                         \* number of the current minibatch
    pc,                         \* the handler in progress, or "idle"
    timeIdxInSeq,               \* the loop variable of the handler in progress
    fault,                      \* the fault that stopped the run, or "none"
    lastOp,                     \* history: the last handler or step that ran
    lastT,                      \* history: the frame of the last per-frame step
    carrySource,                \* history: who wrote m_delayedActivation last
    nPartials,                  \* history: number of gradient steps taken
    callerHist,                 \* the matrix the caller handed to GetHistory
    fstream,                    \* what is left to read of the file last loaded
    loaded,                     \* history: the file and version of the last load
    lstm,                       \* the LSTM node of the network, or NoNode
    lstmInputs                  \* the five input nodes of the LSTM node

cfgVars == <<direction, m_timeStep, m_initialActivationValue>>
layoutVars == <<m_pMBLayout, m_pShiftedMBLayout>>
valueVars == <<m_functionValues, m_delayedActivation, m_historyAlreadySet, carrySource>>
gradVars == <<m_gradientValues, inputGradientValues, nPartials>>
readerVars == <<mbLayout, mb, inputFunctionValues>>
ctrlVars == <<pc, timeIdxInSeq>>
fileVars == <<fstream, loaded>>
lstmVars == <<lstm, lstmInputs>>
extVars == <<callerHist, fileVars, lstmVars>>
vars == <<cfgVars, layoutVars, valueVars, gradVars, readerVars, ctrlVars,
          fault, lastOp, lastT, extVars>>

NumCols(L) == L.n * L.T

(***************************************************************************)
(* The state after construction (second constructor: initial activation,   *)
(* col_size and timeStep given) with the first minibatch read: the input   *)
(* node holds its values and the gradient buffers are sized and filled by  *)
(* the other nodes of the network.                                         *)
(***************************************************************************)
DelayedValueNodeInit ==
    /\ direction \in Directions
    /\ mbLayout \in MBLayouts
    /\ m_timeStep \in 0 .. MaxStep
    /\ m_initialActivationValue \in InitialActivationValues
    /\ m_pMBLayout = NullLayout
    /\ m_pShiftedMBLayout = NullLayout
    /\ \E col_size \in {1, NumCols(mbLayout)} :
          /\ m_functionValues = Filled(col_size, m_initialActivationValue)
          /\ m_delayedActivation = Filled(col_size, m_initialActivationValue)
    /\ m_historyAlreadySet = FALSE
    /\ carrySource = [by |-> "constructor", mb |-> 0]
    /\ mb = 1
    /\ inputFunctionValues = InputValues(1, NumCols(mbLayout))
    /\ m_gradientValues = GradientOf(1, NumCols(mbLayout))
    /\ inputGradientValues = OtherConsumers(NumCols(mbLayout))
    /\ nPartials = 0
    /\ pc = "idle"
    /\ timeIdxInSeq = 0
    /\ fault = "none"
    /\ lastOp = "constructor"
    /\ lastT = 0
    /\ callerHist = <<>>

\* no file has been opened
NoFile == <<>>
NoLoad == [node |-> "none", file |-> NoFile, modelVersion |-> 0]

\* a network without an LSTM node
NoNode == [OperationName |-> "none"]

\* the network holds a delayed-value node and no LSTM node
Init ==
    /\ DelayedValueNodeInit
    /\ fstream = NoFile
    /\ loaded = NoLoad
    /\ lstm = NoNode
    /\ lstmInputs = NoNode

(***************************************************************************)
(* SetMBLayout: the scan that builds the shifted layout.                   *)
(***************************************************************************)
\* a variant that resets timeStep-1 frames instead of timeStep
ResetCountdownOneShort(L, marker, timeStep, numResetLeft, i) ==
    IF Is(L, i, {marker, NoFeature})
    THEN [j \in 0 .. L.n - 1 |->
            IF IsCell(L, j, i, {marker}) THEN timeStep - 1
            ELSE IF IsCell(L, j, i, {NoFeature}) THEN 0
            ELSE numResetLeft[j]]
    ELSE numResetLeft

\* a variant that lets the countdown run on through a NoFeature cell
ResetCountdownNoClear(L, marker, timeStep, numResetLeft, i) ==
    IF Is(L, i, {marker, NoFeature})
    THEN [j \in 0 .. L.n - 1 |->
            IF IsCell(L, j, i, {marker}) THEN timeStep ELSE numResetLeft[j]]
    ELSE numResetLeft

\* lines 123-134: the countdowns after looking at the flags of frame i
ResetCountdown(L, marker, timeStep, numResetLeft, i) ==
    IF Is(L, i, {marker, NoFeature})
    THEN [j \in 0 .. L.n - 1 |->
            IF IsCell(L, j, i, {marker}) THEN timeStep
            ELSE IF IsCell(L, j, i, {NoFeature}) THEN 0
            ELSE numResetLeft[j]]
    ELSE numResetLeft

\* lines 138-147, streams j .. n-1: implant the boundary flag where the
\* countdown is positive
RECURSIVE ImplantFlags(_, _, _, _, _)
ImplantFlags(shifted, marker, numResetLeft, i, j) ==
    IF j >= shifted.n THEN shifted
    ELSE ImplantFlags(IF numResetLeft[j] > 0
                      THEN Set(Mask(shifted, j, i, {NoLabel}), j, i, {marker})
                      ELSE shifted,
                      marker, numResetLeft, i, j + 1)

\* line 140: the post-decrement applies to every stream
Decrement(numResetLeft) == [j \in DOMAIN numResetLeft |-> numResetLeft[j] - 1]

\* lines 121-151, frames i .. GetSize()-1
RECURSIVE ScanFrames(_, _, _, _, _, _)
ScanFrames(L, shifted, marker, timeStep, numResetLeft, i) ==
    IF i >= GetSize(L) THEN shifted
    ELSE LET r == ResetCountdown(L, marker, timeStep, numResetLeft, i)
         IN  ScanFrames(L, ImplantFlags(shifted, marker, r, i, 0), marker, timeStep,
                        Decrement(r), i + 1)

\* lines 108-152
ShiftedLayout(L, marker, timeStep) ==
    IF timeStep > 1
    THEN ScanFrames(L, L, marker, timeStep, [j \in 0 .. L.n - 1 |-> 0], 0)
    ELSE L

\* a variant that installs the layout before it checks the step size
SetMBLayoutResultLateCheck(timeStep, marker, pMBLayout, oldLayout, oldShifted) ==
    [fault |-> IF timeStep <= 0 THEN "LogicError" ELSE "none",
     layout |-> pMBLayout,
     shifted |-> ShiftedLayout(pMBLayout, marker, timeStep)]

\* lines 99-153
SetMBLayoutResult(timeStep, marker, pMBLayout, oldLayout, oldShifted) ==
    IF timeStep <= 0
    THEN [fault |-> "LogicError", layout |-> oldLayout, shifted |-> oldShifted]
    ELSE [fault |-> "none", layout |-> pMBLayout,
          shifted |-> ShiftedLayout(pMBLayout, marker, timeStep)]

\* a variant that makes m_pShiftedMBLayout point to the layout it is given
SharedWithShifted(pMBLayout, shifted) == shifted

\* line 107: a copy assignment; the layout the caller shares with other nodes
\* is a different object from the one the flags are implanted in
LeftToCaller(pMBLayout, shifted) == pMBLayout

SetMBLayout ==
    /\ pc = "idle" /\ fault = "none"
    /\ LET r == SetMBLayoutResult(m_timeStep, SequenceStart_or_End(direction), mbLayout,
                                  m_pMBLayout, m_pShiftedMBLayout)
       IN  /\ fault' = r.fault
           /\ m_pMBLayout' = r.layout
           /\ m_pShiftedMBLayout' = r.shifted
           /\ mbLayout' = IF r.fault = "none" THEN LeftToCaller(mbLayout, r.shifted)
                          ELSE mbLayout
    /\ lastOp' = "SetMBLayout"
    /\ UNCHANGED <<extVars, cfgVars, valueVars, gradVars, mb, inputFunctionValues, ctrlVars,
                   lastT>>

\* lines 310-315
SetTimeStep(val) ==
    /\ pc = "idle" /\ fault = "none"
    /\ IF val <= 0
       THEN fault' = "LogicError" /\ UNCHANGED m_timeStep
       ELSE fault' = "none" /\ m_timeStep' = val
    /\ lastOp' = "SetTimeStep"
    /\ UNCHANGED <<extVars, direction, m_initialActivationValue, layoutVars, valueVars, gradVars,
                   readerVars, ctrlVars, lastT>>

(***************************************************************************)
(* LoadFromFile: the fields SaveToFile wrote, read back.                   *)
(***************************************************************************)
CNTK_MODEL_VERSION_2 == 2

\* the matrices of the model keep their columns only; a node's values have
\* this many rows
NumRows == 1

\* what follows the node's record in the file
Trailer == <<77>>

\* lines 69-77: the fields in the order written
SaveToFile(timeStep, rows, cols, initialActivationValue) ==
    <<timeStep, rows, cols, initialActivationValue>>

\* the record a writer of the format before version 2 left: no constant
SaveToFileVersion1(timeStep, rows, cols) == <<timeStep, rows, cols>>

\* files holding the record of a delayed-value node
Files ==
    {SaveToFile(timeStep, NumRows, 1, v) \o Trailer :
        timeStep \in 0 .. MaxStep, v \in LoadedActivationValues}

OlderFiles ==
    {SaveToFileVersion1(timeStep, NumRows, 1) \o Trailer : timeStep \in 0 .. MaxStep}

\* fstream >> x for the items first .. Len(file)
Rest(file, first) == SubSeq(file, first, Len(file))

\* line 91
ReadsActivationValue(modelVersion) == modelVersion >= CNTK_MODEL_VERSION_2

\* lines 79-93
LoadFromFile(file, modelVersion) ==
    /\ pc = "idle" /\ fault = "none"
    /\ m_timeStep' = file[1]
    /\ \E g \in Uninitialized :
          /\ m_functionValues' = Resize(m_functionValues, file[3], g)
          /\ m_delayedActivation' = Resize(m_delayedActivation, file[3], g)
    /\ carrySource' = IF Len(m_delayedActivation) = file[3] THEN carrySource
                      ELSE [by |-> "LoadFromFile", mb |-> mb]
    /\ IF ReadsActivationValue(modelVersion)
       THEN m_initialActivationValue' = file[4] /\ fstream' = Rest(file, 5)
       ELSE UNCHANGED m_initialActivationValue /\ fstream' = Rest(file, 4)
    /\ loaded' = [node |-> "DelayedValue", file |-> file, modelVersion |-> modelVersion]
    /\ lastOp' = "LoadFromFile"
    /\ UNCHANGED <<direction, layoutVars, m_historyAlreadySet, gradVars, readerVars,
                   ctrlVars, fault, lastT, callerHist, lstmVars>>

NextLayout ==
    \/ SetMBLayout
    \/ \E val \in 0 .. MaxStep : SetTimeStep(val)
    \/ \E file \in Files, modelVersion \in {1, 2} : LoadFromFile(file, modelVersion)

SpecLayout == Init /\ [][NextLayout]_vars

(***************************************************************************)
(* EvaluateThisNodeSRP: one frame of the forward pass.                     *)
(***************************************************************************)
\* Matrix::ColumnSlice(startColumn, numCols) faults outside the matrix
ColumnSliceOk(m, startColumn, numCols) ==
    startColumn >= 0 /\ startColumn + numCols <= GetNumCols(m)

\* column c (0-based) of m
Column(m, c) == m[c + 1]

\* out.SetValue(v) on the slice of numCols columns that starts at column c
SetColumns(m, c, numCols, v) ==
    [k \in 1 .. Len(m) |-> IF c + 1 <= k /\ k <= c + numCols THEN v[k - c] ELSE m[k]]

\* a variant that looks against the direction
DelayedIndexBackwards(t, dir, timeStep, mNbr) == (t - dir * timeStep) * mNbr

\* line 222
DelayedIndex(t, dir, timeStep, mNbr) == (t + dir * timeStep) * mNbr

\* a variant that takes column 0 of the input for the carry as well
OutsideInputFromZero(delayedIndex, inputCols) ==
    delayedIndex <= 0 \/ delayedIndex >= inputCols

\* lines 224, 241, 252: the delayed column lies outside the input
OutsideInput(delayedIndex, inputCols) == delayedIndex < 0 \/ delayedIndex >= inputCols

\* a variant that wraps the distance instead of the index
WrappedIndexOfDistance(delayedIndex, inputCols, carryCols) ==
    IF OutsideInput(delayedIndex, inputCols)
    THEN Mod(-delayedIndex, carryCols)
    ELSE delayedIndex

\* lines 223-225
WrappedIndex(delayedIndex, inputCols, carryCols) ==
    IF OutsideInput(delayedIndex, inputCols)
    THEN Mod(delayedIndex, carryCols)
    ELSE delayedIndex

\* a variant that tests the start flag in both instances of the template
FrameHasBoundaryStartOnly(minibatchPackingFlags, marker) ==
    SequenceStart \in minibatchPackingFlags

\* line 231
FrameHasBoundary(minibatchPackingFlags, marker) == marker \in minibatchPackingFlags

\* line 237
StreamHasBoundary(colBoundaryFlags, i, marker) == marker \in colBoundaryFlags[i]

\* lines 233-248, streams i .. mNbr-1
RECURSIVE EvaluateStreams(_, _, _, _, _, _, _, _, _, _, _)
EvaluateStreams(functionValues, t, mNbr, delayedIndex, d, delayedActivation, inputFunctionValues_, initStateValue, colBoundaryFlags, marker, i) ==
    IF i >= mNbr THEN [functionValues |-> functionValues, fault |-> "none"]
    ELSE IF ~ColumnSliceOk(functionValues, t * mNbr + i, 1)
    THEN [functionValues |-> functionValues, fault |-> "ColumnSlice"]
    ELSE IF StreamHasBoundary(colBoundaryFlags, i, marker)
    THEN EvaluateStreams(SetColumns(functionValues, t * mNbr + i, 1, <<initStateValue>>),
                         t, mNbr, delayedIndex, d, delayedActivation, inputFunctionValues_,
                         initStateValue, colBoundaryFlags, marker, i + 1)
    ELSE LET src == IF OutsideInput(delayedIndex, GetNumCols(inputFunctionValues_))
                    THEN delayedActivation ELSE inputFunctionValues_
         IN  IF ~ColumnSliceOk(src, d + i, 1)
             THEN [functionValues |-> functionValues, fault |-> "ColumnSlice"]
             ELSE EvaluateStreams(
                      SetColumns(functionValues, t * mNbr + i, 1, <<Column(src, d + i)>>),
                      t, mNbr, delayedIndex, d, delayedActivation, inputFunctionValues_,
                      initStateValue, colBoundaryFlags, marker, i + 1)

\* lines 209-259; garbage is what a reallocated output buffer holds
EvaluateThisNodeSRP(t, mNbr, dir, marker, timeStep, functionValues, delayedActivation, inputFunctionValues_, initStateValue, frame, garbage) ==
    LET fv == Resize(functionValues, GetNumCols(inputFunctionValues_), garbage)
        delayedIndex == DelayedIndex(t, dir, timeStep, mNbr)
        d == WrappedIndex(delayedIndex, GetNumCols(inputFunctionValues_),
                          GetNumCols(delayedActivation))
        src == IF OutsideInput(delayedIndex, GetNumCols(inputFunctionValues_))
               THEN delayedActivation ELSE inputFunctionValues_
    IN  IF ~ColumnSliceOk(fv, t * mNbr, mNbr)
        THEN [functionValues |-> fv, fault |-> "ColumnSlice"]
        ELSE IF FrameHasBoundary(frame.second, marker)
        THEN EvaluateStreams(fv, t, mNbr, delayedIndex, d, delayedActivation,
                             inputFunctionValues_, initStateValue, frame.first, marker, 0)
        ELSE IF ~ColumnSliceOk(src, d, mNbr)
        THEN [functionValues |-> fv, fault |-> "ColumnSlice"]
        ELSE [functionValues |->
                  SetColumns(fv, t * mNbr, mNbr, [k \in 1 .. mNbr |-> Column(src, d + k - 1)]),
              fault |-> "none"]

(***************************************************************************)
(* EvaluateThisNode(): the loop over the frames of the minibatch.          *)
(***************************************************************************)
\* lines 391, 460
NbrSamples == GetNumCols(inputFunctionValues) \div GetNumParallelSequences(m_pMBLayout)

\* lines 392, 461: the first frame of the loop
FirstFrame == IF direction = -1 THEN 0 ELSE NbrSamples - 1

\* a variant that forgets to save the input for the next minibatch
CarryAfterEvaluateKept(delayedActivation, inputFunctionValues_) == delayedActivation

\* lines 400, 468
CarryAfterEvaluate(delayedActivation, inputFunctionValues_) == inputFunctionValues_

\* the caller asserts a layout (lines 407, 473) and a positive step (389, 458)
CanEvaluate == pc = "idle" /\ fault = "none" /\ m_pMBLayout.n > 0 /\ m_timeStep > 0

EvaluateThisNodeBegin ==
    /\ CanEvaluate
    /\ pc' = "EvaluateThisNode"
    /\ timeIdxInSeq' = FirstFrame
    /\ lastOp' = "EvaluateThisNodeBegin"
    /\ UNCHANGED <<extVars, cfgVars, layoutVars, valueVars, gradVars, readerVars, fault, lastT>>

EvaluateThisNodeStep ==
    /\ pc = "EvaluateThisNode" /\ fault = "none"
    /\ IF 0 <= timeIdxInSeq /\ timeIdxInSeq < NbrSamples
       THEN \E g \in Uninitialized :
              LET r == EvaluateThisNodeSRP(timeIdxInSeq, GetNumParallelSequences(m_pMBLayout),
                           direction, SequenceStart_or_End(direction), m_timeStep,
                           m_functionValues, m_delayedActivation, inputFunctionValues,
                           m_initialActivationValue,
                           GetFrame(m_pShiftedMBLayout, timeIdxInSeq), g)
              IN  /\ m_functionValues' = r.functionValues
                  /\ fault' = r.fault
                  /\ timeIdxInSeq' = timeIdxInSeq - direction
                  /\ lastOp' = "EvaluateThisNodeSRP"
                  /\ lastT' = timeIdxInSeq
                  /\ UNCHANGED <<pc, m_delayedActivation, carrySource>>
       ELSE /\ m_delayedActivation' = CarryAfterEvaluate(m_delayedActivation,
                                                         inputFunctionValues)
            /\ carrySource' = [by |-> "EvaluateThisNode", mb |-> mb]
            /\ pc' = "idle"
            /\ lastOp' = "EvaluateThisNode"
            /\ UNCHANGED <<m_functionValues, fault, timeIdxInSeq, lastT>>
    /\ UNCHANGED <<extVars, cfgVars, layoutVars, m_historyAlreadySet, gradVars, readerVars>>

(***************************************************************************)
(* EvaluateThisNode(frameRange): one frame, driven by the scheduler.       *)
(***************************************************************************)
\* a variant that ignores an injected history
ResetsCarryIgnoringHistory(dir, t, historyAlreadySet, nbrSamples) ==
    IF dir = -1 THEN t = 0 ELSE t = nbrSamples - 1

\* lines 409, 475
ResetsCarry(dir, t, historyAlreadySet, nbrSamples) ==
    IF dir = -1
    THEN t = 0 /\ historyAlreadySet = FALSE
    ELSE t = nbrSamples - 1

\* lines 403-414, 471-480
EvaluateThisNodeFrame(t) ==
    /\ fault = "none" /\ m_pMBLayout.n > 0 /\ m_timeStep > 0
    /\ LET reset == ResetsCarry(direction, t, m_historyAlreadySet, NbrSamples)
           carry == IF reset THEN inputFunctionValues ELSE m_delayedActivation
       IN  /\ m_delayedActivation' = carry
           /\ carrySource' = IF reset THEN [by |-> "EvaluateThisNodeFrame", mb |-> mb]
                             ELSE carrySource
           /\ \E g \in Uninitialized :
                LET r == EvaluateThisNodeSRP(t, GetNumParallelSequences(m_pMBLayout),
                             direction, SequenceStart_or_End(direction), m_timeStep,
                             m_functionValues, carry, inputFunctionValues,
                             m_initialActivationValue, GetFrame(m_pShiftedMBLayout, t), g)
                IN  /\ m_functionValues' = r.functionValues
                    /\ fault' = r.fault
    /\ lastOp' = "EvaluateThisNodeFrame"
    /\ lastT' = t
    /\ UNCHANGED <<extVars, cfgVars, layoutVars, m_historyAlreadySet, gradVars, readerVars>>

(***************************************************************************)
(* The scheduler's loop over the frames of a recurrent loop: it calls      *)
(* EvaluateThisNode(frameRange) for one frame after the other, in the      *)
(* order of the node's direction.                                          *)
(***************************************************************************)
FrameLoopBegin ==
    /\ CanEvaluate
    /\ pc' = "FrameLoop"
    /\ timeIdxInSeq' = FirstFrame
    /\ lastOp' = "FrameLoopBegin"
    /\ UNCHANGED <<extVars, cfgVars, layoutVars, valueVars, gradVars, readerVars, fault, lastT>>

FrameLoopStep ==
    /\ pc = "FrameLoop" /\ fault = "none"
    /\ IF 0 <= timeIdxInSeq /\ timeIdxInSeq < NbrSamples
       THEN /\ EvaluateThisNodeFrame(timeIdxInSeq)
            /\ timeIdxInSeq' = timeIdxInSeq - direction
            /\ UNCHANGED pc
       ELSE /\ pc' = "idle"
            /\ lastOp' = "FrameLoop"
            /\ UNCHANGED <<extVars, cfgVars, layoutVars, valueVars, gradVars, readerVars, fault,
                           timeIdxInSeq, lastT>>

\* lines 292-301
SetHistory(hist) ==
    /\ pc = "idle" /\ fault = "none"
    /\ m_delayedActivation' = hist
    /\ m_historyAlreadySet' = TRUE
    /\ carrySource' = [by |-> "SetHistory", mb |-> mb]
    /\ lastOp' = "SetHistory"
    /\ UNCHANGED <<extVars, cfgVars, layoutVars, m_functionValues, gradVars, readerVars, ctrlVars,
                   fault, lastT>>

\* lines 281-290: the matrix handed in comes back holding the values set
GetHistory ==
    /\ pc = "idle" /\ fault = "none"
    /\ callerHist' = inputFunctionValues
    /\ lastOp' = "GetHistory"
    /\ UNCHANGED <<cfgVars, layoutVars, valueVars, gradVars, readerVars, ctrlVars,
                   fault, lastT, fileVars, lstmVars>>

(***************************************************************************)
(* The reader and the rest of the network move on to the next minibatch:   *)
(* the input node holds new values and the gradient buffers are filled     *)
(* anew.  The minibatches of a run share one layout.                       *)
(***************************************************************************)
NextMinibatch ==
    /\ pc = "idle" /\ fault = "none"
    /\ mb < MaxMinibatches
    /\ mb' = mb + 1
    /\ inputFunctionValues' = InputValues(mb + 1, NumCols(mbLayout))
    /\ m_gradientValues' = GradientOf(mb + 1, NumCols(mbLayout))
    /\ inputGradientValues' = OtherConsumers(NumCols(mbLayout))
    /\ nPartials' = 0
    /\ lastOp' = "NextMinibatch"
    /\ UNCHANGED <<extVars, cfgVars, layoutVars, valueVars, mbLayout, ctrlVars, fault, lastT>>

\* the forward pass over whole minibatches
NextEvaluate ==
    \/ SetMBLayout
    \/ EvaluateThisNodeBegin
    \/ EvaluateThisNodeStep
    \/ \E hist \in Histories(mbLayout) : SetHistory(hist)
    \/ NextMinibatch

SpecEvaluate == Init /\ [][NextEvaluate]_vars

\* the forward pass frame by frame
NextFrame ==
    \/ SetMBLayout
    \/ FrameLoopBegin
    \/ FrameLoopStep
    \/ \E hist \in Histories(mbLayout) : SetHistory(hist)
    \/ NextMinibatch

SpecFrame == Init /\ [][NextFrame]_vars

\* a driver outside the minibatch loop sets and reads the history
NextHistory ==
    \/ SetMBLayout
    \/ \E hist \in Histories(mbLayout) : SetHistory(hist)
    \/ GetHistory
    \/ NextMinibatch

SpecHistory == Init /\ [][NextHistory]_vars

(***************************************************************************)
(* ComputeInputPartialSRP: one frame of the backward pass.                 *)
(***************************************************************************)
\* size_t arithmetic wraps.  size_t is 64 bits wide; the integers of the
\* model checker are narrower, so the model wraps at 2^30, which like 2^64
\* lies above every column count.
SizeTModulus == 2 ^ 30
AsSizeT(x) == x % SizeTModulus

\* line 177: both comparisons are made in size_t
InGradientRange(t, dir, timeStep, gradientCols) ==
    AsSizeT(t + dir * timeStep) >= 0 /\ AsSizeT(t + dir * timeStep) < gradientCols

\* a variant that overwrites the target
Overwrite(to, frm) == frm

\* lines 189, 198: to += frm
Accumulate(to, frm) == to + frm

\* a variant that stops the gradient at the boundary marker alone
StreamPropagatesPastNoFeature(colBoundaryFlags, i, marker) ==
    marker \notin colBoundaryFlags[i]

\* lines 184-185
StreamPropagates(colBoundaryFlags, i, marker) ==
    marker \notin colBoundaryFlags[i] /\ NoFeature \notin colBoundaryFlags[i]

\* to += frm on the slices of numCols columns at toCol and frmCol
AddColumns(inputGradient, toCol, gradient, frmCol, numCols) ==
    [k \in 1 .. Len(inputGradient) |->
        IF toCol + 1 <= k /\ k <= toCol + numCols
        THEN Accumulate(inputGradient[k], gradient[frmCol + (k - toCol)])
        ELSE inputGradient[k]]

\* lines 182-191, streams i .. mNbr-1
RECURSIVE ScatterStreams(_, _, _, _, _, _, _, _, _)
ScatterStreams(inputGradient, gradient, t, mNbr, dir, timeStep, colBoundaryFlags, marker, i) ==
    IF i >= mNbr THEN [inputGradientValues |-> inputGradient, fault |-> "none"]
    ELSE IF ~StreamPropagates(colBoundaryFlags, i, marker)
    THEN ScatterStreams(inputGradient, gradient, t, mNbr, dir, timeStep, colBoundaryFlags,
                        marker, i + 1)
    ELSE IF \/ ~ColumnSliceOk(inputGradient, (t + dir * timeStep) * mNbr + i, 1)
            \/ ~ColumnSliceOk(gradient, t * mNbr + i, 1)
    THEN [inputGradientValues |-> inputGradient, fault |-> "ColumnSlice"]
    ELSE ScatterStreams(
             AddColumns(inputGradient, (t + dir * timeStep) * mNbr + i, gradient,
                        t * mNbr + i, 1),
             gradient, t, mNbr, dir, timeStep, colBoundaryFlags, marker, i + 1)

\* lines 170-201
ComputeInputPartialSRP(t, mNbr, dir, marker, timeStep, inputGradient, gradient, frame) ==
    IF ~InGradientRange(t, dir, timeStep, GetNumCols(gradient))
    THEN [inputGradientValues |-> inputGradient, fault |-> "none"]
    ELSE IF (frame.second \cap {marker, NoFeature}) # {}
    THEN ScatterStreams(inputGradient, gradient, t, mNbr, dir, timeStep, frame.first,
                        marker, 0)
    ELSE IF \/ ~ColumnSliceOk(gradient, t * mNbr, mNbr)
            \/ ~ColumnSliceOk(inputGradient, (t + dir * timeStep) * mNbr, mNbr)
    THEN [inputGradientValues |-> inputGradient, fault |-> "ColumnSlice"]
    ELSE [inputGradientValues |->
              AddColumns(inputGradient, (t + dir * timeStep) * mNbr, gradient, t * mNbr,
                         mNbr),
          fault |-> "none"]

(***************************************************************************)
(* ComputeInputPartial(inputIndex): the loop over the frames.              *)
(***************************************************************************)
\* lines 377, 447
NbrGradientSamples ==
    GetNumCols(m_gradientValues) \div GetNumParallelSequences(m_pMBLayout)

\* lines 378, 448: the first frame of the loop
FirstGradientFrame == IF direction = -1 THEN NbrGradientSamples - 1 ELSE 0

\* lines 372-376, 442-446
ComputeInputPartialBegin(inputIndex) ==
    /\ CanEvaluate
    /\ nPartials < MaxPartials
    /\ nPartials' = nPartials + 1
    /\ IF inputIndex > 0
       THEN fault' = "InvalidArgument" /\ UNCHANGED ctrlVars
       ELSE /\ pc' = "ComputeInputPartial"
            /\ timeIdxInSeq' = FirstGradientFrame
            /\ UNCHANGED fault
    /\ lastOp' = "ComputeInputPartialBegin"
    /\ UNCHANGED <<extVars, cfgVars, layoutVars, valueVars, m_gradientValues, inputGradientValues,
                   readerVars, lastT>>

\* lines 378-383, 448-453
ComputeInputPartialStep ==
    /\ pc = "ComputeInputPartial" /\ fault = "none"
    /\ IF 0 <= timeIdxInSeq /\ timeIdxInSeq < NbrGradientSamples
       THEN LET r == ComputeInputPartialSRP(timeIdxInSeq,
                         GetNumParallelSequences(m_pMBLayout), direction,
                         SequenceStart_or_End(direction), m_timeStep, inputGradientValues,
                         m_gradientValues, GetFrame(m_pShiftedMBLayout, timeIdxInSeq))
            IN  /\ inputGradientValues' = r.inputGradientValues
                /\ fault' = r.fault
                /\ timeIdxInSeq' = timeIdxInSeq + direction
                /\ lastOp' = "ComputeInputPartialSRP"
                /\ lastT' = timeIdxInSeq
                /\ UNCHANGED pc
       ELSE /\ pc' = "idle"
            /\ lastOp' = "ComputeInputPartial"
            /\ UNCHANGED <<inputGradientValues, fault, timeIdxInSeq, lastT>>
    /\ UNCHANGED <<extVars, cfgVars, layoutVars, valueVars, m_gradientValues, nPartials, readerVars>>

\* the backward pass over whole minibatches
NextGradient ==
    \/ SetMBLayout
    \/ \E inputIndex \in {0, 1} : ComputeInputPartialBegin(inputIndex)
    \/ ComputeInputPartialStep
    \/ NextMinibatch

SpecGradient == Init /\ [][NextGradient]_vars

(***************************************************************************)
(* LSTMNode.  Its matrices are filled uniformly wherever the node or its   *)
(* unit test writes them, so a matrix is its shape and the value of its    *)
(* elements.                                                               *)
(***************************************************************************)
Mat(rows, cols, v) == [rows |-> rows, cols |-> cols, v |-> v]
EmptyMat == Mat(0, 0, 0)
HasNoElements(m) == m.rows = 0 \/ m.cols = 0

\* the value of the elements after SetValue(NAN)
NAN == -99

\* Resize followed by SetValue(v)
ResizeAndSet(rows, cols, v) == Mat(rows, cols, IF rows = 0 \/ cols = 0 THEN 0 ELSE v)

\* operator+= ; adding matrices of different shapes is a fault of the matrix
\* library, which the node's own code never causes
MatPlus(a, b) == Mat(a.rows, a.cols, IF HasNoElements(a) THEN 0 ELSE a.v + b.v)

\* the input and output dimensions of the networks considered; the second is
\* that of the unit test (lines 1340-1342)
SmallestDims == [inputDim |-> 1, outputDim |-> 1]
LSTMDims == {SmallestDims, [inputDim |-> 2, outputDim |-> 3]}

\* an input node: its operation, the storage of its values, its values and
\* its gradient
InputNode(op, sparse, rows, cols) ==
    [OperationName |-> op, sparse |-> sparse, FunctionValues |-> Mat(rows, cols, 1),
     GradientValues |-> EmptyMat]

LearnableParameter == "LearnableParameter"

\* lines 1273-1278: the five inputs as the comment above Validate wants them;
\* Inputs(i) of the source is element i+1
WellFormedInputs(d) ==
    <<InputNode("InputValue", FALSE, d.inputDim, 1),
      InputNode(LearnableParameter, FALSE, d.outputDim, d.inputDim + d.outputDim + 2),
      InputNode(LearnableParameter, FALSE, d.outputDim, d.inputDim + d.outputDim + 2),
      InputNode(LearnableParameter, FALSE, d.outputDim, d.inputDim + d.outputDim + 2),
      InputNode(LearnableParameter, FALSE, d.outputDim, d.inputDim + d.outputDim + 1)>>

\* the ways a network description gets one thing about input k wrong
Defects(ins, k) ==
    {[ins EXCEPT ![k].sparse = TRUE],
     [ins EXCEPT ![k].FunctionValues = EmptyMat],
     [ins EXCEPT ![k].OperationName = "Times"],
     [ins EXCEPT ![k].FunctionValues.cols = @ + 1],
     [ins EXCEPT ![k].FunctionValues.rows = @ + 1]}

\* the input lists a network description may attach to the node
LSTMInputConfigs ==
    {WellFormedInputs(d) : d \in LSTMDims}
    \cup UNION {{SubSeq(WellFormedInputs(d), 1, 4)}
                \cup UNION {Defects(WellFormedInputs(d), k) : k \in 1 .. 5} :
                d \in {SmallestDims}}

\* lines 1279-1334: the fault Validate raises for the inputs, or "none"
ValidateFault(m_children) ==
    IF Len(m_children) # 5 THEN "LogicError"
    ELSE IF m_children[1].sparse THEN "LogicError"
    ELSE IF \E k \in 2 .. 5 : m_children[k].OperationName # LearnableParameter
    THEN "LogicError"
    ELSE IF HasNoElements(m_children[1].FunctionValues) THEN "LogicError"
    ELSE IF \E k \in 2 .. 5 : HasNoElements(m_children[k].FunctionValues)
    THEN "LogicError"
    ELSE LET nindim == m_children[1].FunctionValues.rows
             noutdim == m_children[2].FunctionValues.rows
             nCol == nindim + noutdim + 2
         IN  IF \E k \in 2 .. 4 : m_children[k].FunctionValues.cols # nCol
             THEN "LogicError"
             ELSE IF \E k \in 3 .. 5 : m_children[k].FunctionValues.rows # noutdim
             THEN "LogicError"
             ELSE "none"

\* DEFAULT_HIDDEN_ACTIVATION is 0.1; the values of the LSTM node are counted in
\* tenths
DEFAULT_HIDDEN_ACTIVATION == 1

\* lines 505-521: the node after construction.  m_GradientComputed is not in
\* the initialiser list; its value is whatever the memory holds.  validated,
\* evaluated, sweeps, calls and flagAtBegin are history: Validate has passed,
\* a forward pass has completed on the current minibatch, the backward sweeps
\* and the calls per input index since then, and the flag as the forward pass
\* in progress found it.
LSTMNode(garbage) ==
    [OperationName |-> "LSTM",
     m_inputDim |-> 0, m_outputDim |-> 0,
     m_use_errors_from_future_minibatch |-> FALSE,
     m_DefaultState |-> DEFAULT_HIDDEN_ACTIVATION,
     m_GradientComputed |-> garbage,
     m_State |-> <<>>, m_Gi |-> <<>>, m_Gf |-> <<>>, m_Go |-> <<>>,
     tanhState |-> <<>>, tanhObs |-> <<>>,
     m_PastState |-> <<>>, m_PastOutput |-> <<>>,
     mLastState |-> <<>>, mLastOutput |-> <<>>,
     mSlicePrevState |-> <<>>, mSlicePrevOutput |-> <<>>,
     grdToObs |-> EmptyMat, grdToInputGate |-> EmptyMat, grdToForgetGate |-> EmptyMat,
     grdToOutputGate |-> EmptyMat, grdToCellWgt |-> EmptyMat,
     grdToPrevOutput |-> <<>>, grdToPrevState |-> <<>>, stateError |-> <<>>,
     m_obs_error_from_future_minibatch |-> <<>>,
     m_state_error_from_future_minibatch |-> <<>>,
     inputIndex |-> 0,
     validated |-> FALSE, evaluated |-> FALSE, sweeps |-> 0,
     calls |-> [i \in 0 .. 4 |-> 0], flagAtBegin |-> FALSE]

\* Inputs(i) of the LSTM node
Inputs(i) == lstmInputs[i + 1]

\* lines 1339 and 1349-1356: the layout of UnitTest, one stream of three
\* frames with a SequenceStart at frame 1
ReferenceLayout == Set(EmptyLayout(1, 3), 0, 1, {SequenceStart})

\* the layouts of the minibatches the LSTM node sees, one without frames
\* among them
LSTMLayouts ==
    {EmptyLayout(n, T) : n \in 1 .. MaxStreams, T \in 0 .. 1}
    \cup {EmptyLayout(1, MaxFrames), ReferenceLayout}

\* the dimensions the node takes from its inputs (lines 572-574, 960-961)
LSTM_nT == Inputs(0).FunctionValues.cols
LSTM_inputDim == Inputs(0).FunctionValues.rows
LSTM_outputDim == Inputs(1).FunctionValues.rows

\* the network holds an LSTM node with its inputs attached and no
\* delayed-value node, whose variables stay as they are here; no minibatch
\* has been read
LSTMNetworkInit ==
    /\ direction = -1
    /\ m_timeStep = 1
    /\ m_initialActivationValue = DEFAULT_HIDDEN_ACTIVATION
    /\ m_pMBLayout = NullLayout
    /\ m_pShiftedMBLayout = NullLayout
    /\ m_functionValues = <<>>
    /\ m_delayedActivation = <<>>
    /\ m_historyAlreadySet = FALSE
    /\ carrySource = [by |-> "constructor", mb |-> 0]
    /\ m_gradientValues = <<>>
    /\ inputFunctionValues = <<>>
    /\ inputGradientValues = <<>>
    /\ nPartials = 0
    /\ mbLayout = NullLayout
    /\ mb = 0
    /\ pc = "idle"
    /\ timeIdxInSeq = 0
    /\ fault = "none"
    /\ lastOp = "constructor"
    /\ lastT = 0
    /\ callerHist = <<>>
    /\ fstream = NoFile
    /\ loaded = NoLoad
    /\ \E garbage \in BOOLEAN : lstm = LSTMNode(garbage)

\* the inputs are those of one of the network descriptions
InitLSTM == LSTMNetworkInit /\ lstmInputs \in LSTMInputConfigs

\* lines 1279-1334
LSTMValidate ==
    /\ pc = "idle" /\ fault = "none" /\ ~lstm.validated
    /\ LET f == ValidateFault(lstmInputs)
       IN  IF f # "none"
           THEN fault' = f /\ UNCHANGED <<lstm, m_functionValues>>
           ELSE /\ lstm' = [lstm EXCEPT !.validated = TRUE]
                /\ m_functionValues' = Filled(LSTM_nT, NAN)
                /\ UNCHANGED fault
    /\ lastOp' = "LSTMValidate"
    /\ UNCHANGED <<cfgVars, layoutVars, m_delayedActivation, m_historyAlreadySet,
                   carrySource, gradVars, readerVars, ctrlVars, lastT, callerHist,
                   fileVars, lstmInputs>>

\* the gradient buffers of the inputs as the network leaves them before a
\* backward pass: not yet allocated, or sized like the values and zeroed
\* (lines 1397-1401)
ClearedGradients(ins, sized) ==
    [k \in 1 .. Len(ins) |->
        [ins[k] EXCEPT !.GradientValues =
            IF sized THEN ResizeAndSet(ins[k].FunctionValues.rows,
                                       ins[k].FunctionValues.cols, 0)
            ELSE EmptyMat]]

\* the reader delivers a minibatch of layout L: the observation input holds
\* one column per frame and stream, the network links the layout to the node
\* (Base::SetMBLayout), the consumers of the node fill its gradient
LSTMNextMinibatch(L, sized) ==
    /\ pc = "idle" /\ fault = "none" /\ lstm.validated
    /\ mb < MaxMinibatches
    /\ mb' = mb + 1
    /\ mbLayout' = L
    /\ m_pMBLayout' = L
    /\ lstmInputs' = ClearedGradients(
                         [lstmInputs EXCEPT ![1].FunctionValues.cols = NumCols(L)], sized)
    /\ inputFunctionValues' = InputValues(mb + 1, NumCols(L))
    /\ m_gradientValues' = GradientOf(mb + 1, NumCols(L))
    /\ lstm' = [lstm EXCEPT !.evaluated = FALSE, !.calls = [i \in 0 .. 4 |-> 0]]
    /\ lastOp' = "LSTMNextMinibatch"
    /\ UNCHANGED <<cfgVars, m_pShiftedMBLayout, valueVars, inputGradientValues, nPartials,
                   ctrlVars, fault, lastT, callerHist, fileVars>>

(***************************************************************************)
(* LSTMNode::EvaluateThisNode.                                             *)
(***************************************************************************)
\* lines 917-930: the flags of stream streamid at column t of the minibatch
GetSegInfo(L, t, streamid) == L.cell[<<streamid, t \div L.n>>]

\* lines 946-954: the last column of stream i whose flags are None, searched
\* from column t downwards; -1 if there is none
RECURSIVE LastColumnWithInput(_, _, _)
LastColumnWithInput(L, t, i) ==
    IF t < 0 THEN -1
    ELSE IF GetSegInfo(L, t, i) = None THEN t
    ELSE LastColumnWithInput(L, t - L.n, i)

\* lines 935-956: the snapshot of buffer values into last, which Resize has
\* just given one column per stream
SaveLastStateActity(L, nT, values, last, garbage) ==
    LET resized == Resize(last, L.n, garbage)
    IN  [c \in 1 .. L.n |->
            LET t == LastColumnWithInput(L, nT - L.n + (c - 1), c - 1)
            IN  IF t >= 0 THEN values[t + 1] ELSE resized[c]]

\* the node can run: Validate has passed and a minibatch is linked
LSTMCanRun == pc = "idle" /\ fault = "none" /\ lstm.validated /\ mb >= 1

\* lines 960-987: the buffers sized and set to NAN, the carries sized
LSTMEvaluateBegin ==
    /\ LSTMCanRun
    /\ LET n == GetNumParallelSequences(m_pMBLayout)
           nanCols == Filled(LSTM_nT, NAN)
       IN  /\ m_functionValues' = nanCols
           /\ \E garbage \in Uninitialized :
                lstm' = [lstm EXCEPT
                    !.m_State = nanCols, !.m_Gi = nanCols, !.m_Gf = nanCols,
                    !.m_Go = nanCols, !.tanhState = nanCols, !.tanhObs = nanCols,
                    !.m_PastState = IF Len(@) = 0 \/ Len(@) # n
                                    THEN Filled(n, lstm.m_DefaultState) ELSE @,
                    !.m_PastOutput = IF Len(@) = 0 \/ Len(@) # n
                                     THEN Filled(n, garbage) ELSE @,
                    !.flagAtBegin = lstm.m_GradientComputed]
    /\ pc' = "LSTMEvaluateThisNode"
    /\ timeIdxInSeq' = 0
    /\ lastOp' = "LSTMEvaluateBegin"
    /\ UNCHANGED <<cfgVars, layoutVars, m_delayedActivation, m_historyAlreadySet,
                   carrySource, gradVars, readerVars, fault, lastT, callerHist, fileVars,
                   lstmInputs>>

\* a variant that leaves the flag as it is
FlagAfterEvaluateKept(m_GradientComputed) == m_GradientComputed

\* line 1036
FlagAfterEvaluate(m_GradientComputed) == FALSE

\* a variant of PrepareHistory that returns to the loop
PrepareHistoryFinished(t) == "none"

\* line 1086: PrepareHistory ends with LogicError("PrepareHistory: finish
\* this") whatever frame t it is called for
PrepareHistory(t) == "LogicError"

\* lines 996-1036: a frame of the loop, which PrepareHistory (lines 1052-1112)
\* ends with a LogicError once it has sized the slices; or, the loop being
\* over, the snapshot and the reset of the flag
LSTMEvaluateStep ==
    /\ pc = "LSTMEvaluateThisNode" /\ fault = "none"
    /\ LET n == GetNumParallelSequences(m_pMBLayout)
       IN  IF timeIdxInSeq < LSTM_nT
           THEN /\ \E garbage \in Uninitialized :
                     lstm' = [lstm EXCEPT
                         !.mSlicePrevOutput = Resize(@, n, garbage),
                         !.mSlicePrevState = Resize(@, n, garbage)]
                /\ fault' = PrepareHistory(timeIdxInSeq)
                /\ lastOp' = "PrepareHistory"
                /\ lastT' = timeIdxInSeq
                /\ UNCHANGED pc
           ELSE /\ \E garbage \in Uninitialized :
                     lstm' = [lstm EXCEPT
                         !.mLastOutput = SaveLastStateActity(m_pMBLayout, LSTM_nT,
                                             m_functionValues, @, garbage),
                         !.mLastState = SaveLastStateActity(m_pMBLayout, LSTM_nT,
                                            lstm.m_State, @, garbage),
                         !.m_GradientComputed = FlagAfterEvaluate(@),
                         !.evaluated = TRUE, !.sweeps = 0,
                         !.calls = [i \in 0 .. 4 |-> 0]]
                /\ pc' = "idle"
                /\ lastOp' = "LSTMEvaluateThisNode"
                /\ UNCHANGED <<fault, lastT>>
    /\ UNCHANGED <<cfgVars, layoutVars, valueVars, gradVars, readerVars, timeIdxInSeq,
                   callerHist, fileVars, lstmInputs>>

(***************************************************************************)
(* LSTMNode::ComputeInputPartial.                                          *)
(***************************************************************************)
\* the gradient the sweep has computed for input inputIndex (lines 685-723)
GradientFor(node, inputIndex) ==
    CASE inputIndex = 0 -> node.grdToObs
      [] inputIndex = 1 -> node.grdToInputGate
      [] inputIndex = 2 -> node.grdToForgetGate
      [] inputIndex = 3 -> node.grdToOutputGate
      [] inputIndex = 4 -> node.grdToCellWgt
      [] OTHER -> EmptyMat

\* the node after a call for inputIndex has returned
Called(node, inputIndex) ==
    IF inputIndex \in 0 .. 4 THEN [node EXCEPT !.calls[inputIndex] = @ + 1] ELSE node

\* a variant that starts a per-gate gradient at one
ResetGradientToOne(values) == ResizeAndSet(values.rows, values.cols, 1)

\* lines 585-589: a per-gate gradient sized like the values of its input and
\* set to zero
ResetGradient(values) == ResizeAndSet(values.rows, values.cols, 0)

\* lines 585-603: the per-gate gradients and the running errors reset
ResetGradients(node, ins, n) ==
    [node EXCEPT
        !.grdToObs = ResetGradient(ins[1].FunctionValues),
        !.grdToInputGate = ResetGradient(ins[2].FunctionValues),
        !.grdToForgetGate = ResetGradient(ins[3].FunctionValues),
        !.grdToOutputGate = ResetGradient(ins[4].FunctionValues),
        !.grdToCellWgt = ResetGradient(ins[5].FunctionValues),
        !.grdToPrevOutput = Filled(n, 0),
        !.grdToPrevState = Filled(n, 0)]

\* lines 685-723: the gradient of the input set, if its buffer has no
\* elements, or added to; the matrix library faults on unlike shapes
AccumulateGradient(ins, inputIndex, grd) ==
    LET G == ins[inputIndex + 1].GradientValues
    IN  IF inputIndex > 4 THEN [inputs |-> ins, fault |-> "none"]
        ELSE IF HasNoElements(G)
        THEN [inputs |-> [ins EXCEPT ![inputIndex + 1].GradientValues = grd],
              fault |-> "none"]
        ELSE IF G.rows # grd.rows \/ G.cols # grd.cols
        THEN [inputs |-> ins, fault |-> "MatrixShape"]
        ELSE [inputs |-> [ins EXCEPT ![inputIndex + 1].GradientValues = MatPlus(G, grd)],
              fault |-> "none"]

\* a variant that runs the sweep on every call
SweepNeededAlways(m_GradientComputed) == TRUE

\* line 576
SweepNeeded(m_GradientComputed) == m_GradientComputed = FALSE

\* a variant that accepts the index 5
InputIndexOutOfRangeFrom6(inputIndex) == inputIndex > 5

\* line 569
InputIndexOutOfRange(inputIndex) == inputIndex > 4

\* the calls of ComputeInputPartial since the last forward pass
CallsMade(node) ==
    node.calls[0] + node.calls[1] + node.calls[2] + node.calls[3] + node.calls[4]

\* lines 567-605 and, when no sweep is needed, 685-728
LSTMComputeInputPartialBegin(inputIndex) ==
    /\ LSTMCanRun
    /\ CallsMade(lstm) < MaxPartials
    /\ IF InputIndexOutOfRange(inputIndex)
       THEN /\ fault' = "InvalidArgument"
            /\ lastOp' = "LSTMComputeInputPartialBegin"
            /\ UNCHANGED <<lstm, lstmInputs, ctrlVars>>
       ELSE IF SweepNeeded(lstm.m_GradientComputed)
       THEN IF Len(m_functionValues) # Len(m_gradientValues)
            THEN /\ fault' = "RuntimeError"
                 /\ lastOp' = "LSTMComputeInputPartialBegin"
                 /\ UNCHANGED <<lstm, lstmInputs, ctrlVars>>
            ELSE /\ lstm' = [ResetGradients(lstm, lstmInputs,
                                 GetNumParallelSequences(m_pMBLayout))
                                EXCEPT !.inputIndex = inputIndex]
                 /\ pc' = "LSTMComputeInputPartial"
                 /\ timeIdxInSeq' = LSTM_nT - GetNumParallelSequences(m_pMBLayout)
                 /\ lastOp' = "LSTMComputeInputPartialBegin"
                 /\ UNCHANGED <<fault, lstmInputs>>
       ELSE LET r == AccumulateGradient(lstmInputs, inputIndex,
                                        GradientFor(lstm, inputIndex))
            IN  /\ lstmInputs' = r.inputs
                /\ fault' = r.fault
                /\ lstm' = Called([lstm EXCEPT !.inputIndex = inputIndex], inputIndex)
                /\ lastOp' = "LSTMComputeInputPartial"
                /\ UNCHANGED ctrlVars
    /\ UNCHANGED <<cfgVars, layoutVars, valueVars, gradVars, readerVars, lastT,
                   callerHist, fileVars>>

\* lines 1137-1138: the error of a later minibatch enters stream utt_id at the
\* frame that starts at column t
TakesFutureError(L, t, nT, utt_id) ==
    LET utt_t == t \div L.n
        total_utt_t == nT \div L.n
    IN  \/ GetSegInfo(L, t, utt_id) = None /\ utt_t = total_utt_t - 1
        \/ /\ utt_t < total_utt_t - 1
           /\ GetSegInfo(L, t, utt_id) = None
           /\ GetSegInfo(L, t + L.n, utt_id) = NoInput

\* a variant that takes the error of a later minibatch whatever the flags of
\* the stream at the frame are
AddsFutureErrorAnyFlag(L, t, nT, node, utt_id) ==
    /\ node.m_use_errors_from_future_minibatch
    /\ (t \div L.n) = (nT \div L.n) - 1
    /\ utt_id < Len(node.m_obs_error_from_future_minibatch)

\* lines 1132-1141: stream utt_id gets the error of a later minibatch added at
\* the frame that starts at column t; ColumnSlice(utt_id, 1) of an error
\* matrix with fewer columns ends the call before it adds
AddsFutureError(L, t, nT, node, utt_id) ==
    /\ node.m_use_errors_from_future_minibatch
    /\ TakesFutureError(L, t, nT, utt_id)
    /\ utt_id < Len(node.m_obs_error_from_future_minibatch)

\* a variant that works on a copy of the error slice
ErrorBeforeBackPropOnCopy(gradient, L, t, nT, node) == gradient

\* lines 1129-1145: the error slice of the frame that starts at column t, a
\* slice of the node's gradient (line 619), after error += grdToPrevOutput and
\* the errors of a later minibatch
ErrorBeforeBackProp(gradient, L, t, nT, node) ==
    [c \in 1 .. Len(gradient) |->
        IF t + 1 <= c /\ c <= t + L.n
        THEN gradient[c] + node.grdToPrevOutput[c - t]
             + (IF AddsFutureError(L, t, nT, node, c - t - 1)
                THEN node.m_obs_error_from_future_minibatch[c - t] ELSE 0)
        ELSE gradient[c]]

\* lines 1130 and 1142: stateError after stateError = grdToPrevState and the
\* state errors of a later minibatch
StateErrorBeforeBackProp(L, t, nT, node) ==
    [u \in 1 .. Len(node.grdToPrevState) |->
        node.grdToPrevState[u]
        + (IF /\ AddsFutureError(L, t, nT, node, u - 1)
              /\ u <= Len(node.m_state_error_from_future_minibatch)
           THEN node.m_state_error_from_future_minibatch[u] ELSE 0)]

\* lines 1141-1150: the fault PrepareThisErrorsBeforeBackProp ends with, that
\* of a column slice outside an error matrix or, the loop over the streams
\* done, LogicError("PrepareThisErrorsBeforeBackProp: finish this")
BeforeBackPropFault(L, t, nT, node) ==
    IF /\ node.m_use_errors_from_future_minibatch
       /\ \E utt_id \in Streams(L) :
              /\ TakesFutureError(L, t, nT, utt_id)
              /\ \/ utt_id >= Len(node.m_obs_error_from_future_minibatch)
                 \/ utt_id >= Len(node.m_state_error_from_future_minibatch)
    THEN "ColumnSlice" ELSE "LogicError"

\* lines 605-683 and 685-728: a frame of the sweep, which
\* PrepareThisErrorsBeforeBackProp (lines 1115-1171) ends with a LogicError
\* once it has added to the error slice; or, the sweep being over, the flag
\* set and the gradient of the input added
LSTMComputeInputPartialStep ==
    /\ pc = "LSTMComputeInputPartial" /\ fault = "none"
    /\ IF timeIdxInSeq >= 0
       THEN /\ m_gradientValues' = ErrorBeforeBackProp(m_gradientValues, m_pMBLayout,
                                       timeIdxInSeq, LSTM_nT, lstm)
            /\ lstm' = [lstm EXCEPT !.stateError = StateErrorBeforeBackProp(
                                     m_pMBLayout, timeIdxInSeq, LSTM_nT, lstm)]
            /\ fault' = BeforeBackPropFault(m_pMBLayout, timeIdxInSeq, LSTM_nT, lstm)
            /\ lastOp' = "PrepareThisErrorsBeforeBackProp"
            /\ lastT' = timeIdxInSeq
            /\ UNCHANGED <<pc, lstmInputs>>
       ELSE LET r == AccumulateGradient(lstmInputs, lstm.inputIndex,
                                        GradientFor(lstm, lstm.inputIndex))
            IN  /\ lstm' = Called([lstm EXCEPT
                                !.m_obs_error_from_future_minibatch = lstm.grdToPrevOutput,
                                !.m_state_error_from_future_minibatch = lstm.grdToPrevState,
                                !.m_GradientComputed = TRUE,
                                !.sweeps = @ + 1], lstm.inputIndex)
                /\ lstmInputs' = r.inputs
                /\ fault' = r.fault
                /\ pc' = "idle"
                /\ lastOp' = "LSTMComputeInputPartial"
                /\ UNCHANGED <<m_gradientValues, lastT>>
    /\ UNCHANGED <<cfgVars, layoutVars, valueVars, inputGradientValues, nPartials,
                   readerVars, timeIdxInSeq, callerHist, fileVars>>

\* a network with an LSTM node: validation, minibatches, forward and
\* backward passes
NextLSTM ==
    \/ LSTMValidate
    \/ \E L \in LSTMLayouts, sized \in BOOLEAN : LSTMNextMinibatch(L, sized)
    \/ LSTMEvaluateBegin
    \/ LSTMEvaluateStep
    \/ \E inputIndex \in 0 .. 5 : LSTMComputeInputPartialBegin(inputIndex)
    \/ LSTMComputeInputPartialStep

SpecLSTM == InitLSTM /\ [][NextLSTM]_vars

(***************************************************************************)
(* LSTMNode::SaveToFile and LoadFromFile; nodes read back from files.      *)
(***************************************************************************)
\* a default state a network description sets in place of the default
SavedDefaultState == 7

\* lines 526-531: the fields in the order written; what Base::SaveToFile
\* writes before them is read back by Base::LoadFromFile and left out
LSTMSaveToFile(inputDim, outputDim, DefaultState) == <<inputDim, outputDim, DefaultState>>

\* files holding the record of an LSTM node
LSTMFiles ==
    {LSTMSaveToFile(d.inputDim, d.outputDim, v) \o Trailer :
        d \in LSTMDims, v \in {DEFAULT_HIDDEN_ACTIVATION, SavedDefaultState}}

\* the record of an LSTM node in a file of the format before version 2: the
\* dimensions, no constant
LSTMSaveToFileVersion1(inputDim, outputDim) == <<inputDim, outputDim>>

OlderLSTMFiles ==
    {LSTMSaveToFileVersion1(d.inputDim, d.outputDim) \o Trailer : d \in LSTMDims}

\* line 536
ReadsDims(modelVersion) == modelVersion = 2

\* lines 533-539
LSTMLoadFromFile(file, modelVersion) ==
    /\ pc = "idle" /\ fault = "none"
    /\ lstm.OperationName = "LSTM"
    /\ IF ReadsDims(modelVersion)
       THEN /\ lstm' = [lstm EXCEPT !.m_inputDim = file[1], !.m_outputDim = file[2],
                                    !.m_DefaultState = file[3]]
            /\ fstream' = Rest(file, 4)
       ELSE /\ lstm' = [lstm EXCEPT !.m_DefaultState = file[1]]
            /\ fstream' = Rest(file, 2)
    /\ loaded' = [node |-> "LSTM", file |-> file, modelVersion |-> modelVersion]
    /\ lastOp' = "LSTMLoadFromFile"
    /\ UNCHANGED <<cfgVars, layoutVars, valueVars, gradVars, readerVars, ctrlVars, fault,
                   lastT, callerHist, lstmInputs>>

\* the format versions a caller passes with a file written by the current
\* SaveToFile, and the one it passes with an older file
CurrentVersions == {CNTK_MODEL_VERSION_2, CNTK_MODEL_VERSION_2 + 1}
OlderVersion == CNTK_MODEL_VERSION_2 - 1

\* a delayed-value node or an LSTM node, just constructed
InitFile == (Init /\ mbLayout \in LayoutsOfShape(1, 1)) \/ InitLSTM

\* LoadFromFile of a network whose node is a delayed-value node
DelayedValueNodeLoadFromFile(file, modelVersion) ==
    lstm.OperationName = "none" /\ LoadFromFile(file, modelVersion)

\* a network read back from a file
NextFile ==
    \/ \E file \in Files, modelVersion \in CurrentVersions :
          DelayedValueNodeLoadFromFile(file, modelVersion)
    \/ \E file \in OlderFiles : DelayedValueNodeLoadFromFile(file, OlderVersion)
    \/ \E file \in LSTMFiles, modelVersion \in CurrentVersions :
          LSTMLoadFromFile(file, modelVersion)
    \/ \E file \in OlderLSTMFiles : LSTMLoadFromFile(file, OlderVersion)

SpecFile == InitFile /\ [][NextFile]_vars

(***************************************************************************)
(* ComputeInputPartial(inputIndex, frameRange) of a delayed-value node, and *)
(* the backward calls of a network on either kind of node.                 *)
(***************************************************************************)
\* lines 158-168
ComputeInputPartial(inputIndex, t) ==
    /\ CanEvaluate
    /\ t < GetSize(m_pShiftedMBLayout)
    /\ nPartials < MaxPartials
    /\ nPartials' = nPartials + 1
    /\ IF inputIndex > 0
       THEN fault' = "InvalidArgument" /\ UNCHANGED inputGradientValues
       ELSE LET r == ComputeInputPartialSRP(t, GetNumParallelSequences(m_pMBLayout),
                         direction, SequenceStart_or_End(direction), m_timeStep,
                         inputGradientValues, m_gradientValues,
                         GetFrame(m_pShiftedMBLayout, t))
            IN  inputGradientValues' = r.inputGradientValues /\ fault' = r.fault
    /\ lastOp' = "ComputeInputPartial"
    /\ lastT' = t
    /\ UNCHANGED <<extVars, cfgVars, layoutVars, valueVars, m_gradientValues, readerVars,
                   ctrlVars>>

IsDelayedValueNode == lstm.OperationName = "none"
IsLSTMNode == lstm.OperationName = "LSTM"

\* a network with a delayed-value node, or one with an LSTM node whose inputs
\* are as Validate wants them
InitBackward ==
    \/ Init /\ mbLayout \in LayoutsOfShape(1, 2)
    \/ InitLSTM /\ lstmInputs \in {WellFormedInputs(d) : d \in LSTMDims}

NextBackward ==
    \/ IsDelayedValueNode /\ SetMBLayout
    \/ IsDelayedValueNode /\ NextMinibatch
    \/ \E inputIndex \in {0, 1}, t \in 0 .. MaxFrames - 1 :
          IsDelayedValueNode /\ ComputeInputPartial(inputIndex, t)
    \/ IsLSTMNode /\ LSTMValidate
    \/ \E L \in LSTMLayouts, sized \in BOOLEAN : IsLSTMNode /\ LSTMNextMinibatch(L, sized)
    \/ IsLSTMNode /\ LSTMEvaluateBegin
    \/ IsLSTMNode /\ LSTMEvaluateStep
    \/ \E inputIndex \in 0 .. 5 : IsLSTMNode /\ LSTMComputeInputPartialBegin(inputIndex)
    \/ IsLSTMNode /\ LSTMComputeInputPartialStep

SpecBackward == InitBackward /\ [][NextBackward]_vars

(***************************************************************************)
(* CopyTo, and the calls that change the step size or the layout between   *)
(* forward and backward passes.                                            *)
(***************************************************************************)
\* the nodes a network copies from: a PastValue or FutureValue node of some
\* step size, with its constant and its carry
CopySources ==
    {[m_timeStep |-> timeStep, m_initialActivationValue |-> v,
      m_delayedActivation |-> Filled(1, v)] :
        timeStep \in 1 .. MaxStep, v \in LoadedActivationValues}

\* lines 324-335, the node of the model being nodeP and from the node CopyTo
\* is called on; what Base::CopyTo copies is left as it is
CopyTo(from, copyNodeValue) ==
    /\ pc = "idle" /\ fault = "none"
    /\ IF copyNodeValue
       THEN /\ m_timeStep' = from.m_timeStep
            /\ m_initialActivationValue' = from.m_initialActivationValue
            /\ m_delayedActivation' = from.m_delayedActivation
            /\ m_historyAlreadySet' = FALSE
            /\ carrySource' = [by |-> "CopyTo", mb |-> mb]
       ELSE UNCHANGED <<m_timeStep, m_initialActivationValue, m_delayedActivation,
                        m_historyAlreadySet, carrySource>>
    /\ lastOp' = "CopyTo"
    /\ UNCHANGED <<extVars, direction, layoutVars, m_functionValues, gradVars, readerVars,
                   ctrlVars, fault, lastT>>

\* a node over one stream of MaxFrames frames, in which at most one sequence
\* starts
InstallLayouts ==
    {EmptyLayout(1, MaxFrames)}
    \cup {Set(EmptyLayout(1, MaxFrames), 0, t, {SequenceStart}) : t \in 0 .. MaxFrames - 1}

InitInstall == Init /\ mbLayout \in InstallLayouts

\* the network edits its nodes before the first pass over the minibatch
NoPassYet == nPartials = 0 /\ carrySource.by # "EvaluateThisNode"

\* a network that edits the node and then runs the passes over a minibatch
NextInstall ==
    \/ SetMBLayout
    \/ \E val \in 0 .. MaxStep : NoPassYet /\ SetTimeStep(val)
    \/ \E file \in Files, modelVersion \in {1, 2} :
          NoPassYet /\ LoadFromFile(file, modelVersion)
    \/ \E from \in CopySources, copyNodeValue \in BOOLEAN :
          NoPassYet /\ CopyTo(from, copyNodeValue)
    \/ EvaluateThisNodeBegin
    \/ EvaluateThisNodeStep
    \/ \E inputIndex \in {0, 1} : ComputeInputPartialBegin(inputIndex)
    \/ ComputeInputPartialStep

SpecInstall == InitInstall /\ [][NextInstall]_vars

(***************************************************************************)
(* LSTMNode: the state handed from one minibatch to the next, the carries  *)
(* m_PastOutput/m_PastState and the errors of a later minibatch.           *)
(***************************************************************************)
\* the matrices a caller passes to SetHistory: output columns, then state
\* columns
LSTMHistories == {[c \in 1 .. k |-> 900 + c] : k \in {2, 4}}

\* the matrices a caller passes to SetErrorsFromFutureMinibatch: output
\* error columns, then state error columns
FutureErrors == {[c \in 1 .. k |-> 40 + c] : k \in {2, 4}}

\* lines 1522-1537
LSTMSetHistory(hist) ==
    /\ IsLSTMNode /\ pc = "idle" /\ fault = "none"
    /\ LET eCols == Len(hist) \div 2
       IN  lstm' = [lstm EXCEPT !.m_PastOutput = SubSeq(hist, 1, eCols),
                                !.m_PastState = SubSeq(hist, eCols + 1, 2 * eCols)]
    /\ lastOp' = "LSTMSetHistory"
    /\ UNCHANGED <<cfgVars, layoutVars, valueVars, gradVars, readerVars, ctrlVars, fault,
                   lastT, callerHist, fileVars, lstmInputs>>

\* lines 1498-1520: hist gets one column per column of the carries; the
\* matrix library faults when a snapshot of another size is set into them
LSTMGetHistory(bLastTime) ==
    /\ IsLSTMNode /\ pc = "idle" /\ fault = "none"
    /\ LET tCol == Len(lstm.m_PastOutput)
           rCol == Len(lstm.m_PastState)
       IN  IF bLastTime /\ (Len(lstm.mLastOutput) # tCol \/ Len(lstm.mLastState) # rCol)
           THEN fault' = "MatrixShape" /\ UNCHANGED callerHist
           ELSE /\ callerHist' = IF bLastTime THEN lstm.mLastOutput \o lstm.mLastState
                                 ELSE lstm.m_PastOutput \o lstm.m_PastState
                /\ UNCHANGED fault
    /\ lastOp' = "LSTMGetHistory"
    /\ UNCHANGED <<cfgVars, layoutVars, valueVars, gradVars, readerVars, ctrlVars, lastT,
                   fileVars, lstmVars>>

\* lines 1556-1571
SetErrorsFromFutureMinibatch(hist) ==
    /\ IsLSTMNode /\ pc = "idle" /\ fault = "none"
    /\ LET rCol == Len(hist) \div 2
       IN  lstm' = [lstm EXCEPT
               !.m_obs_error_from_future_minibatch = SubSeq(hist, 1, rCol),
               !.m_state_error_from_future_minibatch = SubSeq(hist, rCol + 1, 2 * rCol),
               !.m_use_errors_from_future_minibatch = TRUE]
    /\ lastOp' = "SetErrorsFromFutureMinibatch"
    /\ UNCHANGED <<cfgVars, layoutVars, valueVars, gradVars, readerVars, ctrlVars, fault,
                   lastT, callerHist, fileVars, lstmInputs>>

\* lines 1539-1554
GetErrorsToPreviousMinibatch ==
    /\ IsLSTMNode /\ pc = "idle" /\ fault = "none"
    /\ callerHist' = lstm.m_obs_error_from_future_minibatch
                     \o lstm.m_state_error_from_future_minibatch
    /\ lastOp' = "GetErrorsToPreviousMinibatch"
    /\ UNCHANGED <<cfgVars, layoutVars, valueVars, gradVars, readerVars, ctrlVars, fault,
                   lastT, fileVars, lstmVars>>

\* the layouts of the minibatches: two streams of two frames with any flags
\* on the second stream, one stream of one frame, and two streams without a
\* frame
ExchangeLayouts ==
    {L \in LayoutsOfShape(2, 2) : \A t \in Frames(L) : L.cell[<<0, t>>] = None}
    \cup {EmptyLayout(1, 1), EmptyLayout(2, 0)}

\* the observation input holds the columns of one minibatch when the network
\* is validated, one column or two streams of two frames
InitExchange ==
    /\ LSTMNetworkInit
    /\ \E cols \in {1, 4} :
           lstmInputs = [WellFormedInputs(SmallestDims) EXCEPT ![1].FunctionValues.cols = cols]

\* a network with an LSTM node whose state a caller carries from one
\* minibatch to the other
NextExchange ==
    \/ LSTMValidate
    \/ \E L \in ExchangeLayouts : LSTMNextMinibatch(L, TRUE)
    \/ LSTMEvaluateBegin
    \/ LSTMEvaluateStep
    \/ \E inputIndex \in {0, 1} : LSTMComputeInputPartialBegin(inputIndex)
    \/ LSTMComputeInputPartialStep
    \/ \E hist \in LSTMHistories : LSTMSetHistory(hist)
    \/ \E bLastTime \in BOOLEAN : LSTMGetHistory(bLastTime)
    \/ \E hist \in FutureErrors : SetErrorsFromFutureMinibatch(hist)
    \/ GetErrorsToPreviousMinibatch

SpecExchange == InitExchange /\ [][NextExchange]_vars

(***************************************************************************)
(* LSTMNode::SaveLastStateActity applied to the buffers of a forward pass. *)
(***************************************************************************)
\* the output and the cell state of a forward pass over cols columns, a value
\* per column
OutputValues(cols) == [c \in 1 .. cols |-> 300 + c]
StateValues(cols) == [c \in 1 .. cols |-> 600 + c]

SnapshotLayouts == LayoutsOfShape(MaxStreams, MaxFrames) \cup LayoutsOfShape(1, 2)

\* a validated LSTM node linked to a minibatch of layout L whose output and
\* cell state hold the values of a forward pass
InitSnapshot ==
    /\ direction = -1
    /\ m_timeStep = 1
    /\ m_initialActivationValue = DEFAULT_HIDDEN_ACTIVATION
    /\ mbLayout \in SnapshotLayouts
    /\ m_pMBLayout = mbLayout
    /\ m_pShiftedMBLayout = NullLayout
    /\ m_functionValues = OutputValues(NumCols(mbLayout))
    /\ m_delayedActivation = <<>>
    /\ m_historyAlreadySet = FALSE
    /\ carrySource = [by |-> "constructor", mb |-> 0]
    /\ m_gradientValues = <<>>
    /\ inputFunctionValues = InputValues(1, NumCols(mbLayout))
    /\ inputGradientValues = <<>>
    /\ nPartials = 0
    /\ mb = 1
    /\ pc = "idle"
    /\ timeIdxInSeq = 0
    /\ fault = "none"
    /\ lastOp = "LSTMNextMinibatch"
    /\ lastT = 0
    /\ callerHist = <<>>
    /\ fstream = NoFile
    /\ loaded = NoLoad
    /\ \E garbage \in BOOLEAN :
           lstm = [LSTMNode(garbage) EXCEPT !.validated = TRUE,
                                            !.m_State = StateValues(NumCols(mbLayout))]
    /\ lstmInputs = [WellFormedInputs(SmallestDims)
                        EXCEPT ![1].FunctionValues.cols = NumCols(mbLayout)]

\* lines 935-956: the call, which leaves the snapshot in mLastOutput and
\* mLastState
SaveLastStateActityCall ==
    /\ IsLSTMNode /\ pc = "idle" /\ fault = "none"
    /\ \E garbage \in Uninitialized :
          lstm' = [lstm EXCEPT
              !.mLastOutput = SaveLastStateActity(m_pMBLayout, LSTM_nT,
                                  m_functionValues, @, garbage),
              !.mLastState = SaveLastStateActity(m_pMBLayout, LSTM_nT,
                                 lstm.m_State, @, garbage)]
    /\ lastOp' = "SaveLastStateActity"
    /\ UNCHANGED <<cfgVars, layoutVars, valueVars, gradVars, readerVars, ctrlVars, fault,
                   lastT, callerHist, fileVars, lstmInputs>>

NextSnapshot == SaveLastStateActityCall

SpecSnapshot == InitSnapshot /\ [][NextSnapshot]_vars

(***************************************************************************)
(* Properties of the shifted layout.                                       *)
(***************************************************************************)
Marker == SequenceStart_or_End(direction)

\* SetMBLayout has just built the shifted layout from mbLayout and m_timeStep
ShiftedIsFresh == lastOp = "SetMBLayout" /\ fault = "none"

\* stream j has a NoFeature cell without the boundary marker at a frame of fs
NoInputIn(L, j, fs) ==
    \E g \in fs \cap Frames(L) :
        NoFeature \in L.cell[<<j, g>>] /\ Marker \notin L.cell[<<j, g>>]

\* C3 as stated: a boundary marker of a stream at frame k forces frames
\* k..k+S-1 when the direction is +1 and frames k-S+1..k when the direction
\* is -1, unless a NoInput frame cuts the window short.
C3_WindowByDirection ==
    (ShiftedIsFresh /\ m_timeStep > 1) =>
        \A j \in Streams(mbLayout), k \in Frames(mbLayout) :
            Marker \in mbLayout.cell[<<j, k>>] =>
                \A f \in Frames(mbLayout) :
                    IF direction = 1
                    THEN (k <= f /\ f <= k + m_timeStep - 1
                          /\ ~NoInputIn(mbLayout, j, k + 1 .. f))
                            => Marker \in m_pShiftedMBLayout.cell[<<j, f>>]
                    ELSE (k - m_timeStep + 1 <= f /\ f <= k
                          /\ ~NoInputIn(mbLayout, j, f .. k - 1))
                            => Marker \in m_pShiftedMBLayout.cell[<<j, f>>]

\* C3 amended: for both directions the scan runs forward in time, so a
\* boundary marker of a stream at frame k forces frames k..k+S-1 of that
\* stream (those inside the minibatch) to carry the boundary flag, unless a
\* NoInput frame after k cuts the window short.
C3_WindowForward ==
    (ShiftedIsFresh /\ m_timeStep > 1) =>
        \A j \in Streams(mbLayout), k \in Frames(mbLayout) :
            Marker \in mbLayout.cell[<<j, k>>] =>
                \A f \in Frames(mbLayout) :
                    (k <= f /\ f <= k + m_timeStep - 1
                     /\ ~NoInputIn(mbLayout, j, k + 1 .. f))
                        => Marker \in m_pShiftedMBLayout.cell[<<j, f>>]

\* a PastValue node whose scan has flagged a frame after the boundary frame
C3_Witness ==
    /\ ShiftedIsFresh /\ m_timeStep > 1 /\ direction = -1
    /\ \E j \in Streams(mbLayout), k \in Frames(mbLayout), f \in Frames(mbLayout) :
          /\ Marker \in mbLayout.cell[<<j, k>>]
          /\ k < f /\ f <= k + m_timeStep - 1
          /\ Marker \notin mbLayout.cell[<<j, f>>]
          /\ Marker \in m_pShiftedMBLayout.cell[<<j, f>>]

\* C4: once a stream's cell at frame i is NoInput without the boundary
\* marker, the scan forces neither frame i nor any later frame of that
\* stream until the stream's next boundary marker: those cells of the
\* shifted layout keep the flags of the base layout.
C4_NoInputClearsCountdown ==
    ShiftedIsFresh =>
        \A j \in Streams(mbLayout), i \in Frames(mbLayout) :
            (NoFeature \in mbLayout.cell[<<j, i>>] /\ Marker \notin mbLayout.cell[<<j, i>>])
            => \A f \in Frames(mbLayout) :
                  (i <= f /\ \A g \in i .. f : Marker \notin mbLayout.cell[<<j, g>>])
                  => m_pShiftedMBLayout.cell[<<j, f>>] = mbLayout.cell[<<j, f>>]

\* a NoInput cell inside the window of an earlier boundary marker
C4_Witness ==
    /\ ShiftedIsFresh /\ m_timeStep > 1
    /\ \E j \in Streams(mbLayout), k \in Frames(mbLayout), i \in Frames(mbLayout) :
          /\ Marker \in mbLayout.cell[<<j, k>>]
          /\ k < i /\ i <= k + m_timeStep - 1
          /\ NoFeature \in mbLayout.cell[<<j, i>>]
          /\ Marker \notin m_pShiftedMBLayout.cell[<<j, i>>]

\* C5: SetMBLayout on a node whose step size is <= 0 ends in a fault and
\* changes neither the installed layout nor the shifted layout.
C5_NonPositiveStepRejected ==
    [][(lastOp' = "SetMBLayout" /\ m_timeStep <= 0)
        => (/\ fault' = "LogicError"
            /\ m_pMBLayout' = m_pMBLayout
            /\ m_pShiftedMBLayout' = m_pShiftedMBLayout)]_vars

\* the rejected call came after a layout had been installed
C5_Witness ==
    /\ lastOp = "SetMBLayout" /\ fault = "LogicError" /\ m_timeStep <= 0
    /\ m_pMBLayout.n > 0 /\ m_pShiftedMBLayout.n > 0

(***************************************************************************)
(* Properties of the forward pass.                                         *)
(***************************************************************************)
NumStreams == GetNumParallelSequences(m_pMBLayout)
NumFrames == GetSize(m_pMBLayout)

\* the frames whose output the forward pass in progress, or the one that has
\* just ended, has written
EvaluatedFrames ==
    IF fault # "none" THEN {}
    ELSE IF lastOp = "EvaluateThisNodeSRP"
    THEN (IF direction = -1 THEN 0 .. lastT ELSE lastT .. NumFrames - 1)
    ELSE IF lastOp = "EvaluateThisNode" THEN Frames(m_pMBLayout)
    ELSE IF lastOp = "EvaluateThisNodeFrame" THEN {lastT}
    ELSE {}

\* the frames the loop of EvaluateThisNode() has written so far; the carry
\* they were computed from is still in m_delayedActivation
LoopFrames == IF lastOp = "EvaluateThisNodeSRP" THEN EvaluatedFrames ELSE {}

ShiftedHasMarker(j, t) == Marker \in m_pShiftedMBLayout.cell[<<j, t>>]

\* C1: with step 1, a stream without the boundary marker in the shifted
\* layout at frame t, and t+direction inside the minibatch: the output column
\* of the stream at t is the input column of the stream at t+direction.
C1_DelayedCopy ==
    m_timeStep = 1 =>
        \A t \in EvaluatedFrames, j \in Streams(m_pMBLayout) :
            (~ShiftedHasMarker(j, t) /\ 0 <= t + direction /\ t + direction < NumFrames)
            => Column(m_functionValues, t * NumStreams + j)
                 = Column(inputFunctionValues, (t + direction) * NumStreams + j)

\* a whole minibatch evaluated, with a frame in which one stream is reset and
\* another is copied from the input
C1_Witness ==
    /\ m_timeStep = 1 /\ lastOp = "EvaluateThisNode" /\ fault = "none"
    /\ \E t \in Frames(m_pMBLayout), j \in Streams(m_pMBLayout), k \in Streams(m_pMBLayout) :
          /\ ~ShiftedHasMarker(j, t) /\ ShiftedHasMarker(k, t)
          /\ 0 <= t + direction /\ t + direction < NumFrames
          /\ Column(m_functionValues, t * NumStreams + j)
               = Column(inputFunctionValues, (t + direction) * NumStreams + j)

\* C2: a stream whose flag in the shifted layout carries the boundary marker
\* at frame t gets the initial activation value in its output column at t.
C2_BoundaryGetsInitialValue ==
    \A t \in EvaluatedFrames, j \in Streams(m_pMBLayout) :
        ShiftedHasMarker(j, t)
        => Column(m_functionValues, t * NumStreams + j) = m_initialActivationValue

\* a FutureValue node has reset a frame that the scan, not the reader, flagged
C2_Witness ==
    /\ direction = 1 /\ lastOp = "EvaluateThisNode" /\ fault = "none"
    /\ \E t \in Frames(m_pMBLayout), j \in Streams(m_pMBLayout) :
          /\ ShiftedHasMarker(j, t)
          /\ Marker \notin m_pMBLayout.cell[<<j, t>>]
          /\ Column(m_functionValues, t * NumStreams + j) = m_initialActivationValue

\* C8: the loop of EvaluateThisNode() does not write m_delayedActivation, and
\* the step that ends it leaves the input's value buffer there.
C8_CarrySavedAfterLastFrame ==
    [][/\ pc' = "EvaluateThisNode" => m_delayedActivation' = m_delayedActivation
       /\ (pc = "EvaluateThisNode" /\ pc' = "idle")
            => m_delayedActivation' = inputFunctionValues]_vars

\* the second minibatch evaluated: the carry has gone from the first input to
\* the second
C8_Witness ==
    /\ lastOp = "EvaluateThisNode" /\ mb = 2 /\ NumFrames > 1
    /\ carrySource = [by |-> "EvaluateThisNode", mb |-> 2]
    /\ m_delayedActivation = InputValues(2, NumCols(mbLayout))

\* frame t reads outside the input
ReadsCarry(t) ==
    OutsideInput(DelayedIndex(t, direction, m_timeStep, NumStreams),
                 GetNumCols(inputFunctionValues))

\* the output of stream j at frame t is the carry's column (index mod width)+j
FromCarry(t, j) ==
    Column(m_functionValues, t * NumStreams + j)
      = Column(m_delayedActivation,
               Mod(DelayedIndex(t, direction, m_timeStep, NumStreams),
                   GetNumCols(m_delayedActivation)) + j)

\* the carry is the input of the minibatch before, left by its forward pass
CarryIsPreviousInput == carrySource = [by |-> "EvaluateThisNode", mb |-> mb - 1]

\* the output of stream j at frame t is the previous input at frame T+t-S
FromPreviousMinibatch(t, j) ==
    /\ NumFrames + t - m_timeStep >= 0
    /\ Column(m_functionValues, t * NumStreams + j)
         = Column(InputValues(mb - 1, NumCols(m_pMBLayout)),
                  (NumFrames + t - m_timeStep) * NumStreams + j)

\* C9 as stated: a stream without the boundary marker whose delayed column
\* lies outside the input is copied from the carry at (index mod width)+j,
\* and so a PastValue node outputs, at every frame t < S of the second of two
\* minibatches, the first minibatch's input at frame nFrames+t-S.
C9_WrapReachesPreviousMinibatch ==
    \A t \in LoopFrames, j \in Streams(m_pMBLayout) :
        (~ShiftedHasMarker(j, t) /\ ReadsCarry(t))
        => /\ FromCarry(t, j)
           /\ (direction = -1 /\ CarryIsPreviousInput /\ t < m_timeStep)
                => FromPreviousMinibatch(t, j)

\* C9 amended: a stream without the boundary marker whose delayed column lies
\* outside the input is copied from the carry at (index mod width)+j; a
\* PastValue node therefore outputs, at a frame t < S of the second of two
\* minibatches with S - t <= nFrames, the first minibatch's input at frame
\* nFrames+t-S (for S - t > nFrames the index wraps around the carry again).
C9_WrapWithinPreviousMinibatch ==
    \A t \in LoopFrames, j \in Streams(m_pMBLayout) :
        (~ShiftedHasMarker(j, t) /\ ReadsCarry(t))
        => /\ FromCarry(t, j)
           /\ (direction = -1 /\ CarryIsPreviousInput /\ t < m_timeStep
               /\ m_timeStep - t <= NumFrames)
                => FromPreviousMinibatch(t, j)

\* a PastValue node in the second minibatch has copied a frame of the first
C9_Witness ==
    /\ direction = -1 /\ CarryIsPreviousInput /\ mb = 2 /\ m_timeStep = 2
    /\ \E t \in LoopFrames, j \in Streams(m_pMBLayout) :
          /\ ~ShiftedHasMarker(j, t) /\ ReadsCarry(t) /\ t = 1 /\ j = NumStreams - 1
          /\ NumStreams > 1
          /\ FromPreviousMinibatch(t, j)

(***************************************************************************)
(* Properties of the injected history.                                     *)
(***************************************************************************)
\* the step evaluates frame 0 alone while the carry is an injected history
Frame0AfterSetHistory ==
    lastOp' = "EvaluateThisNodeFrame" /\ lastT' = 0 /\ carrySource.by = "SetHistory"

\* the step leaves the history in the carry and answers its reads from it
HistoryUsed ==
    /\ m_delayedActivation' = m_delayedActivation
    /\ fault' = "none" =>
          \A j \in Streams(m_pMBLayout) :
              (~ShiftedHasMarker(j, 0) /\ ReadsCarry(0))
              => Column(m_functionValues', j)
                   = Column(m_delayedActivation,
                            Mod(DelayedIndex(0, direction, m_timeStep, NumStreams),
                                GetNumCols(m_delayedActivation)) + j)

\* C10 as stated: after SetHistory(h) on a delayed-value node, the Evaluate of
\* frame 0 does not replace the carry with the input; its reads outside the
\* minibatch return columns of h.
C10_HistoryKeptByEveryNode == [][Frame0AfterSetHistory => HistoryUsed]_vars

\* C10 amended: after SetHistory(h) on a PastValue node, the Evaluate of
\* frame 0 does not replace the carry with the input; its reads before the
\* minibatch return columns of h.  (A FutureValue node does not look at the
\* flag: it replaces the carry at its last frame, which is frame 0 when the
\* minibatch has one frame.)
C10_HistoryKeptByPastValue ==
    [][(Frame0AfterSetHistory /\ direction = -1) => HistoryUsed]_vars

\* a PastValue node has answered frame 0 from the injected history
C10_Witness ==
    /\ direction = -1 /\ lastOp = "EvaluateThisNodeFrame" /\ lastT = 0
    /\ carrySource.by = "SetHistory" /\ fault = "none" /\ m_historyAlreadySet
    /\ mb = 2
    /\ \E j \in Streams(m_pMBLayout) :
          /\ ~ShiftedHasMarker(j, 0)
          /\ Column(m_functionValues, j) \in { h[c] : h \in Histories(mbLayout),
                                                      c \in 1 .. NumStreams * NumFrames }


(***************************************************************************)
(* Properties of the backward pass, checked under SpecGradient.            *)
(***************************************************************************)
\* column of stream j at frame t, as an index into a buffer
ColumnOf(t, j) == t * NumStreams + j + 1

\* the frame the gradient of frame t is delivered to
DelayedFrame(t) == t + direction * m_timeStep

\* stream j propagates at frame t: its cell of the shifted layout carries
\* neither the boundary marker nor NoFeature, and the delayed frame is a frame
\* of the minibatch
Propagates(t, j) ==
    /\ Marker \notin m_pShiftedMBLayout.cell[<<j, t>>]
    /\ NoFeature \notin m_pShiftedMBLayout.cell[<<j, t>>]
    /\ 0 <= DelayedFrame(t) /\ DelayedFrame(t) < NumFrames

\* the cell of stream j at frame t of the shifted layout carries the boundary
\* marker or NoInput (NoInput is NoFeature together with NoLabel)
Dropped(t, j) ==
    \/ Marker \in m_pShiftedMBLayout.cell[<<j, t>>]
    \/ NoInput \subseteq m_pShiftedMBLayout.cell[<<j, t>>]

\* C6: when the backward pass processes frame t, for every stream that
\* propagates the input gradient column at frame t+direction*S becomes its
\* previous content plus the gradient column of the node at frame t.
C6_ScatterIsAdditive ==
    [][lastOp' = "ComputeInputPartialSRP" =>
          \A j \in Streams(m_pMBLayout) :
              Propagates(lastT', j) =>
                  /\ fault' = "none"
                  /\ inputGradientValues'[ColumnOf(DelayedFrame(lastT'), j)] =
                         inputGradientValues[ColumnOf(DelayedFrame(lastT'), j)]
                         + m_gradientValues[ColumnOf(lastT', j)]]_vars

\* a frame of a propagating stream has been processed and its target column
\* holds what the other consumers had placed there plus the node's gradient
C6_Witness ==
    /\ lastOp = "ComputeInputPartialSRP" /\ fault = "none" /\ nPartials = 1
    /\ \E j \in Streams(m_pMBLayout) :
          /\ Propagates(lastT, j)
          /\ OtherConsumers(NumCols(mbLayout))[ColumnOf(DelayedFrame(lastT), j)] # 0
          /\ inputGradientValues[ColumnOf(DelayedFrame(lastT), j)] =
                 OtherConsumers(NumCols(mbLayout))[ColumnOf(DelayedFrame(lastT), j)]
                 + m_gradientValues[ColumnOf(lastT, j)]

\* C7: when the backward pass processes frame t, every input gradient column
\* of a stream whose shifted flag at t carries the boundary marker or NoInput
\* is left unchanged.
C7_BoundaryDropsGradient ==
    [][lastOp' = "ComputeInputPartialSRP" =>
          \A j \in Streams(m_pMBLayout) :
              Dropped(lastT', j) =>
                  \A g \in Frames(m_pMBLayout) :
                      inputGradientValues'[ColumnOf(g, j)] =
                          inputGradientValues[ColumnOf(g, j)]]_vars

\* a frame has been processed in which one stream is dropped for NoInput,
\* its delayed frame lying inside the minibatch, while another stream of the
\* same frame propagates
C7_Witness ==
    /\ lastOp = "ComputeInputPartialSRP" /\ fault = "none"
    /\ \E j, k \in Streams(m_pMBLayout) :
          /\ Dropped(lastT, j)
          /\ Marker \notin m_pShiftedMBLayout.cell[<<j, lastT>>]
          /\ 0 <= DelayedFrame(lastT) /\ DelayedFrame(lastT) < NumFrames
          /\ Propagates(lastT, k)


(***************************************************************************)
(* Properties of the history accessors, checked under SpecHistory.         *)
(***************************************************************************)
\* C11: a GetHistory that follows SetHistory(h) with no Evaluate in between
\* hands back h, the content of m_delayedActivation, whatever the input holds.
C11_GetHistoryReturnsHistory ==
    (lastOp = "GetHistory" /\ carrySource.by = "SetHistory") =>
        callerHist = m_delayedActivation

\* GetHistory has run after SetHistory and handed back the input's values
C11_Witness ==
    /\ lastOp = "GetHistory" /\ carrySource.by = "SetHistory"
    /\ callerHist = inputFunctionValues
    /\ callerHist # m_delayedActivation

(***************************************************************************)
(* Properties of the LSTM node.                                            *)
(***************************************************************************)
\* the per-gate gradients the sweep keeps inside the node
GateGradients(node) ==
    <<node.grdToObs, node.grdToInputGate, node.grdToForgetGate, node.grdToOutputGate,
      node.grdToCellWgt>>

\* ComputeInputPartial has returned for input i in this step
Returned(i) ==
    /\ lastOp' = "LSTMComputeInputPartial" /\ fault' = "none"
    /\ lstm'.calls[i] = lstm.calls[i] + 1

C13_SweepAtMostOnce ==
    /\ [](lstm # NoNode => lstm.sweeps <= 1)
    /\ [][\A i \in 0 .. 4 :
             (LSTMComputeInputPartialBegin(i) /\ lstm.evaluated)
             => IF CallsMade(lstm) = 0
                THEN pc' = "LSTMComputeInputPartial" /\ lstm.sweeps = 0
                ELSE /\ pc' = "idle"
                     /\ lstm'.sweeps = lstm.sweeps
                     /\ GateGradients(lstm') = GateGradients(lstm)]_vars
    /\ [][(LSTMComputeInputPartialStep /\ fault' = "none")
             => lstm'.m_GradientComputed /\ lstm'.sweeps = 1]_vars

C13_Witness ==
    /\ lastOp = "LSTMComputeInputPartial" /\ fault = "none" /\ lstm.evaluated
    /\ lstm.sweeps = 1 /\ CallsMade(lstm) = 2 /\ lstm.calls[0] = 1 /\ lstm.calls[4] = 1

\* C14 as stated: m_GradientComputed is false from the moment a forward pass
\* has begun.
C14_FlagResetAtStart == pc = "LSTMEvaluateThisNode" => lstm.m_GradientComputed = FALSE

\* C14, amended: a forward pass keeps m_GradientComputed as it found it while
\* its frames are evaluated and sets it to false as its last statement; a
\* forward pass that ends in a fault leaves it as it was.
C14_FlagResetAtEnd ==
    [][/\ LSTMEvaluateBegin => lstm'.m_GradientComputed = lstm.m_GradientComputed
       /\ LSTMEvaluateStep
            => lstm'.m_GradientComputed =
                   (IF fault' = "none" THEN FALSE ELSE lstm.m_GradientComputed)]_vars

C14_Witness ==
    /\ lastOp = "LSTMEvaluateThisNode" /\ fault = "none" /\ lstm.evaluated
    /\ lstm.flagAtBegin /\ ~lstm.m_GradientComputed

\* the inputs as the comment above Validate describes them
InputsAsDescribed(ins) ==
    /\ Len(ins) = 5
    /\ \A k \in 2 .. 5 :
          /\ ~ins[k].sparse
          /\ ~HasNoElements(ins[k].FunctionValues)
          /\ ins[k].FunctionValues.rows = ins[2].FunctionValues.rows
          /\ ins[k].FunctionValues.cols =
                 ins[1].FunctionValues.rows + ins[2].FunctionValues.rows
                 + (IF k = 5 THEN 1 ELSE 2)

\* C15: Validate succeeds only if the node has five inputs and each of the
\* four weight blocks is dense, non-empty, of outputDim rows and of
\* inputDim+outputDim+2 columns (the gates) or inputDim+outputDim+1 columns
\* (the candidate block).
C15_ValidateAcceptsOnlyDescribedInputs ==
    (lstm # NoNode /\ lstm.validated) => InputsAsDescribed(lstmInputs)

\* C18: in the scenario of UnitTest (input dimension 2, output dimension 3,
\* one stream of 3 frames, SequenceStart at frame 1) the forward pass runs
\* through its frames without a fault.
C18_ReferenceEvaluateCompletes ==
    (/\ m_pMBLayout = ReferenceLayout
     /\ lstm # NoNode /\ lstm.validated
     /\ Inputs(0).FunctionValues.rows = 2 /\ Inputs(1).FunctionValues.rows = 3
     /\ lastOp \in {"LSTMEvaluateBegin", "PrepareHistory", "LSTMEvaluateThisNode"})
    => fault = "none"

(***************************************************************************)
(* Properties of SaveToFile and LoadFromFile.                              *)
(***************************************************************************)
\* the file just read was written by SaveToFile for a delayed-value node of
\* these fields, and the node holds them, the stream standing behind them
DelayedValueNodeReadBack(timeStep, cols, v) ==
    loaded.file = SaveToFile(timeStep, NumRows, cols, v) \o Trailer
    => /\ m_timeStep = timeStep
       /\ Len(m_functionValues) = cols /\ Len(m_delayedActivation) = cols
       /\ m_initialActivationValue = v
       /\ fstream = Trailer

\* the same for an LSTM node
LSTMNodeReadBack(d, v) ==
    loaded.file = LSTMSaveToFile(d.inputDim, d.outputDim, v) \o Trailer
    => /\ lstm.m_inputDim = d.inputDim /\ lstm.m_outputDim = d.outputDim
       /\ lstm.m_DefaultState = v
       /\ fstream = Trailer

\* C16: for every format version >= 2 LoadFromFile reads exactly the fields
\* SaveToFile wrote, in their order: the loaded node has the step size, the
\* dimensions and the constant of the saved one, for a delayed-value node and
\* for an LSTM node.
C16_LoadReadsWhatSaveWrote ==
    /\ (lastOp = "LoadFromFile" /\ loaded.modelVersion >= 2)
       => \A timeStep \in 0 .. MaxStep, v \in LoadedActivationValues :
             DelayedValueNodeReadBack(timeStep, 1, v)
    /\ (lastOp = "LSTMLoadFromFile" /\ loaded.modelVersion >= 2)
       => \A d \in LSTMDims, v \in {DEFAULT_HIDDEN_ACTIVATION, SavedDefaultState} :
             LSTMNodeReadBack(d, v)

\* C17: LoadFromFile with a format version below 2 takes no constant from the
\* stream: the stream stands behind the older record, and the constant of a
\* node just constructed stays at its default.
C17_OlderVersionReadsNoConstant ==
    /\ (lastOp = "LoadFromFile" /\ loaded.modelVersion < 2)
       => fstream = Trailer
    /\ (lastOp = "LSTMLoadFromFile" /\ loaded.modelVersion < 2)
       => fstream = Trailer /\ lstm.m_DefaultState = DEFAULT_HIDDEN_ACTIVATION

(***************************************************************************)
(* Properties of the argument checks.                                      *)
(***************************************************************************)
\* C19: ComputeInputPartial with an input index the node does not have (above
\* 0 for a delayed-value node, above 4 for an LSTM node) ends at once in a
\* fault and leaves every gradient buffer, every carry buffer and
\* m_GradientComputed as they were.
C19_BadIndexFaultsAtOnce ==
    [][/\ \A inputIndex \in 1 .. 1, t \in 0 .. MaxFrames - 1 :
             (IsDelayedValueNode /\ ComputeInputPartial(inputIndex, t))
             => /\ fault' = "InvalidArgument"
                /\ UNCHANGED <<inputGradientValues, m_gradientValues, m_delayedActivation,
                               m_functionValues, pc>>
       /\ \A inputIndex \in 5 .. 5 :
             (IsLSTMNode /\ LSTMComputeInputPartialBegin(inputIndex))
             => /\ fault' = "InvalidArgument"
                /\ UNCHANGED <<lstm, lstmInputs, m_gradientValues, m_functionValues, pc>>]_vars

C19_Witness ==
    /\ IsLSTMNode /\ lastOp = "LSTMComputeInputPartialBegin" /\ fault = "InvalidArgument"
    /\ lstm.evaluated /\ lstm.m_GradientComputed
    /\ ~HasNoElements(Inputs(1).GradientValues)

(***************************************************************************)
(* Properties of the delayed reads with any step.                          *)
(***************************************************************************)
\* the forward pass has copied the input of stream j at DelayedFrame(t) into
\* the output of stream j at frame t
CopiesDelayedInput(t, j) ==
    /\ t \in EvaluatedFrames
    /\ ~ShiftedHasMarker(j, t)
    /\ 0 <= DelayedFrame(t) /\ DelayedFrame(t) < NumFrames

\* a boundary of stream j lies between frame t and the frame it reads
BoundaryBetween(t, j) ==
    IF direction = -1
    THEN \E k \in DelayedFrame(t) + 1 .. t : SequenceStart \in m_pMBLayout.cell[<<j, k>>]
    ELSE \E k \in t .. DelayedFrame(t) - 1 : SequenceEnd \in m_pMBLayout.cell[<<j, k>>]

\* C20: no delayed read crosses a sequence boundary: when the forward pass
\* copies the input of stream j at frame t+direction*m_timeStep into the output
\* of stream j at frame t, no SequenceStart (PastValue) or SequenceEnd
\* (FutureValue) of stream j lies between the two frames.
C20_NoReadAcrossBoundary ==
    \A t \in 0 .. NumFrames - 1, j \in 0 .. NumStreams - 1 :
        CopiesDelayedInput(t, j) => ~BoundaryBetween(t, j)

(***************************************************************************)
(* Properties of the column indices of the gradient scatter.               *)
(***************************************************************************)
\* the loop of ComputeInputPartial is about to hand frame timeIdxInSeq to
\* ComputeInputPartialSRP, whose guard (line 177) lets it through
ScatterPending ==
    /\ pc = "ComputeInputPartial" /\ fault = "none"
    /\ 0 <= timeIdxInSeq /\ timeIdxInSeq < NbrGradientSamples
    /\ InGradientRange(timeIdxInSeq, direction, m_timeStep, GetNumCols(m_gradientValues))

\* stream i of the pending frame is written: every stream on the whole-frame
\* path (line 196), the propagating ones on the per-stream path (lines 184-185)
ScatterWrites(i) ==
    LET frame == GetFrame(m_pShiftedMBLayout, timeIdxInSeq)
    IN  (frame.second \cap {Marker, NoFeature}) # {} => StreamPropagates(frame.first, i, Marker)

\* C21: every column index the scatter writes, (t+direction*S)*streams + i,
\* lies inside the column range of the input's gradient.
C21_ScatterIndexInRange ==
    ScatterPending
    => \A i \in 0 .. NumStreams - 1 :
          ScatterWrites(i)
          => /\ 0 <= DelayedFrame(timeIdxInSeq) * NumStreams + i
             /\ DelayedFrame(timeIdxInSeq) * NumStreams + i < GetNumCols(inputGradientValues)

(***************************************************************************)
(* Properties of the reads of the carry.                                   *)
(***************************************************************************)
\* the forward pass has copied the carry into the output of stream j at
\* frame t
CopiesCarry(t, j) == t \in EvaluatedFrames /\ ~ShiftedHasMarker(j, t) /\ ReadsCarry(t)

\* the first frame of the minibatch for PastValue, the last for FutureValue
IsEdgeFrame(t) == t = (IF direction = -1 THEN 0 ELSE NumFrames - 1)

\* one of the m_timeStep frames at that edge
IsNearEdge(t) == IF direction = -1 THEN t < m_timeStep ELSE t >= NumFrames - m_timeStep

\* C22 as stated: the forward pass reads the carry only at the very first
\* frame of a minibatch (PastValue) or the very last (FutureValue).
C22_CarryReadAtEdgeFrameOnly ==
    \A t \in 0 .. NumFrames - 1, j \in 0 .. NumStreams - 1 :
        CopiesCarry(t, j) => IsEdgeFrame(t)

\* C22, amended: the forward pass reads the carry only at the first
\* m_timeStep frames of a minibatch (PastValue) or the last m_timeStep frames
\* (FutureValue); at every other frame the output is the input of the
\* minibatch at the delayed frame or the initial value.
C22_CarryReadNearEdgeOnly ==
    \A t \in 0 .. NumFrames - 1, j \in 0 .. NumStreams - 1 :
        /\ CopiesCarry(t, j) => IsNearEdge(t)
        /\ (t \in EvaluatedFrames /\ ~IsNearEdge(t))
           => Column(m_functionValues, ColumnOf(t, j) - 1)
                \in {Column(inputFunctionValues, ColumnOf(DelayedFrame(t), j) - 1),
                     m_initialActivationValue}

\* in the second minibatch a node of step 2 has read the carry at a frame
\* that is not the edge frame, and the input at a frame further in
C22_Witness ==
    /\ mb = 2 /\ m_timeStep = 2 /\ NumFrames = 3 /\ lastOp = "EvaluateThisNode"
    /\ fault = "none"
    /\ \E t \in 0 .. NumFrames - 1, j \in 0 .. NumStreams - 1 :
          CopiesCarry(t, j) /\ ~IsEdgeFrame(t)
    /\ \E t \in 0 .. NumFrames - 1, j \in 0 .. NumStreams - 1 :
          /\ ~IsNearEdge(t) /\ ~ShiftedHasMarker(j, t)
          /\ Column(m_functionValues, ColumnOf(t, j) - 1)
               = Column(inputFunctionValues, ColumnOf(DelayedFrame(t), j) - 1)

(***************************************************************************)
(* Properties of the shifted layout in use.                                *)
(***************************************************************************)
\* C23: at every forward and backward pass the shifted layout in use is what
\* SetMBLayout builds from the layout installed and the step size the node
\* has now.
C23_ShiftedLayoutIsCurrent ==
    pc \in {"EvaluateThisNode", "ComputeInputPartial"}
    => m_pShiftedMBLayout = ShiftedLayout(m_pMBLayout, Marker, m_timeStep)

WholeMinibatchEvaluated == lastOp = "FrameLoop" /\ fault = "none"

\* C25: m_historyAlreadySet is cleared once the injected history has been
\* used: after SetHistory and the forward pass over a whole minibatch of a
\* PastValue node the flag is false, so that frame 0 of the next minibatch
\* takes the carry from the input again.
C25_HistoryFlagCleared ==
    (WholeMinibatchEvaluated /\ direction = -1) => m_historyAlreadySet = FALSE

(***************************************************************************)
(* Properties of the unfinished LSTM helpers.                              *)
(***************************************************************************)
\* the buffers a frame of the forward pass would fill are as the sizing at
\* lines 968-977 left them
NothingComputed ==
    /\ m_functionValues = Filled(LSTM_nT, NAN)
    /\ \A b \in {lstm.m_State, lstm.m_Gi, lstm.m_Gf, lstm.m_Go, lstm.tanhState, lstm.tanhObs} :
           b = Filled(LSTM_nT, NAN)

IsTemporalEdge(L, t, nT, utt_id) ==
    \/ t + L.n >= nT
    \/ GetSegInfo(L, t + L.n, utt_id) = NoInput

\* the frame of the backward sweep that starts at column lastT has been
\* prepared; what it added to the output error and the state error of stream
\* utt_id beyond the error of the frame after it
AddedToError(utt_id) ==
    m_gradientValues[lastT + utt_id + 1] - GradientOf(mb, LSTM_nT)[lastT + utt_id + 1]
        - lstm.grdToPrevOutput[utt_id + 1]
AddedToStateError(utt_id) == lstm.stateError[utt_id + 1] - lstm.grdToPrevState[utt_id + 1]

\* C27: the error of a later minibatch is added to the output error and the
\* state error of a stream at a frame only if
\* m_use_errors_from_future_minibatch is set, the flags of the stream at the
\* frame are None, and the frame is the last of the minibatch or the flags of
\* the stream at the next frame are NoInput; both for the frame the sweep has
\* prepared and for every frame of the layout as the test at lines 1137-1138
\* decides it.
C27_FutureErrorOnlyAtEdge ==
    /\ (IsLSTMNode /\ lastOp = "PrepareThisErrorsBeforeBackProp") =>
          \A utt_id \in Streams(m_pMBLayout) :
              (AddedToError(utt_id) # 0 \/ AddedToStateError(utt_id) # 0) =>
                  /\ lstm.m_use_errors_from_future_minibatch
                  /\ GetSegInfo(m_pMBLayout, lastT, utt_id) = None
                  /\ IsTemporalEdge(m_pMBLayout, lastT, LSTM_nT, utt_id)
    /\ (IsLSTMNode /\ mb >= 1) =>
          \A utt_id \in Streams(m_pMBLayout), f \in Frames(m_pMBLayout) :
              LET t == f * m_pMBLayout.n
              IN  AddsFutureError(m_pMBLayout, t, LSTM_nT, lstm, utt_id) =>
                      /\ lstm.m_use_errors_from_future_minibatch
                      /\ GetSegInfo(m_pMBLayout, t, utt_id) = None
                      /\ IsTemporalEdge(m_pMBLayout, t, LSTM_nT, utt_id)

\* the sweep has added the error of a later minibatch to the first stream at
\* the last frame of a minibatch whose second stream has no input there
C27_Witness ==
    /\ IsLSTMNode /\ lastOp = "PrepareThisErrorsBeforeBackProp"
    /\ m_pMBLayout.n = 2 /\ lastT = 2
    /\ AddedToError(0) # 0 /\ AddedToStateError(0) # 0
    /\ GetSegInfo(m_pMBLayout, lastT, 1) = NoInput
    /\ AddedToError(1) = 0

(***************************************************************************)
(* Properties of the snapshot of the last frame.                           *)
(***************************************************************************)
\* stream i has input at frame f
HasInput(L, f, i) == L.cell[<<i, f>>] \cap NoInput = {}

\* the last frame at which stream i has input; -1 if there is none
LastFrameWithInput(L, i) ==
    IF \E f \in Frames(L) : HasInput(L, f, i)
    THEN CHOOSE f \in Frames(L) :
             HasInput(L, f, i) /\ \A g \in Frames(L) : HasInput(L, g, i) => g <= f
    ELSE -1

InLSTMComputeInputPartial ==
    /\ IsLSTMNode
    /\ lastOp' \in {"LSTMComputeInputPartialBegin", "LSTMComputeInputPartial",
                    "PrepareThisErrorsBeforeBackProp"}

\* C29 as stated: LSTM ComputeInputPartial leaves the node's GradientValues
\* as they were before the call, whether it completes or faults, for every
\* layout and with or without the errors of a later minibatch.
C29_OwnGradientUntouched ==
    [][InLSTMComputeInputPartial => m_gradientValues' = m_gradientValues]_vars

\* what the first frame of the sweep, the last of the minibatch, adds to
\* column c of the node's gradient: the output error of a later minibatch
\* for the stream of the column, if the errors are in use, the column is one
\* of the frame, the flags of the stream there are None and the error matrix
\* has a column for the stream
AddedInPlace(c) ==
    LET utt_id == c - 1 - timeIdxInSeq
    IN  IF /\ lstm.m_use_errors_from_future_minibatch
           /\ utt_id \in Streams(m_pMBLayout)
           /\ GetSegInfo(m_pMBLayout, timeIdxInSeq, utt_id) = None
           /\ utt_id < Len(lstm.m_obs_error_from_future_minibatch)
        THEN lstm.m_obs_error_from_future_minibatch[utt_id + 1]
        ELSE 0

\* C29, amended: LSTM ComputeInputPartial changes the node's GradientValues
\* in place and only in the frame PrepareThisErrorsBeforeBackProp is called
\* for: there each stream whose flags are None gets the output error of a
\* later minibatch added when m_use_errors_from_future_minibatch is set; every
\* other column, and every column when the errors are not in use, is as
\* before the call.
C29_OwnGradientChangedInPlace ==
    [][InLSTMComputeInputPartial =>
          /\ Len(m_gradientValues') = Len(m_gradientValues)
          /\ \A c \in 1 .. Len(m_gradientValues) :
                m_gradientValues'[c] = m_gradientValues[c]
                    + (IF lastOp' = "PrepareThisErrorsBeforeBackProp"
                       THEN AddedInPlace(c) ELSE 0)
          /\ ~lstm.m_use_errors_from_future_minibatch =>
                m_gradientValues' = m_gradientValues]_vars

\* the sweep has stopped with the node's gradient changed in one column of the
\* last frame and unchanged in the other
C29_Witness ==
    /\ IsLSTMNode /\ lastOp = "PrepareThisErrorsBeforeBackProp"
    /\ m_pMBLayout.n = 2 /\ LSTM_nT = 4
    /\ m_gradientValues[3] # GradientOf(mb, LSTM_nT)[3]
    /\ m_gradientValues[4] = GradientOf(mb, LSTM_nT)[4]

(***************************************************************************)
(* Properties of the carries m_PastOutput and m_PastState.                 *)
(***************************************************************************)
\* the step sizes a carry that is empty or has another number of columns
\* than the minibatch has streams (lines 979 and 984)
SizesCarry(carry) ==
    /\ lastOp' = "LSTMEvaluateBegin"
    /\ Len(carry) = 0 \/ Len(carry) # GetNumParallelSequences(m_pMBLayout)

\* the carry holds the default state for every stream
AtDefaultState(carry) ==
    carry = Filled(GetNumParallelSequences(m_pMBLayout), lstm.m_DefaultState)

\* C30: m_PastOutput and m_PastState are changed only by SetHistory and by
\* the sizing at the start of a forward pass, which sets an empty carry, or
\* one of another stream count, to the default state; no other step of a
\* forward pass changes them, so that without SetHistory they stay the same
\* from one forward pass to the next.
C30_CarryChangedOnlyBySetHistory ==
    [][IsLSTMNode =>
          /\ lstm'.m_PastOutput # lstm.m_PastOutput =>
                \/ lastOp' = "LSTMSetHistory"
                \/ SizesCarry(lstm.m_PastOutput) /\ AtDefaultState(lstm'.m_PastOutput)
          /\ lstm'.m_PastState # lstm.m_PastState =>
                \/ lastOp' = "LSTMSetHistory"
                \/ SizesCarry(lstm.m_PastState) /\ AtDefaultState(lstm'.m_PastState)]_vars

====
